---- MODULE Spec2Model ----
(***************************************************************************)
(* The outbox-relay pipeline of johnhamlin/event-driven-demo:              *)
(*   createWorkOrder (API lambda)  -> Postgres work_orders + outbox        *)
(*   handler (publisher lambda)    -> SNS topic -> SQS ProjectorQueue      *)
(*   handler/processEvent (projector lambda) -> DynamoDB projections and   *)
(*                                               processed-events ledger   *)
(* Time is a millisecond counter `now`; every NOW()/new Date() reads it.   *)
(***************************************************************************)
EXTENDS Integers, Sequences, FiniteSets, Bags, TLC

\* ------------------------------------------------------------------ bounds
\* Number of outbox rows the writers may insert.
MaxRecords == 2
\* Last value of the millisecond clock.
MaxTime == 1
\* Live SQS messages (queued or in flight).
MaxCopies == 2

\* ------------------------------------------------------- program constants
\* SELECT ... LIMIT 10
BatchLimit == 10
\* deadLetterQueue.maxReceiveCount
maxReceiveCount == 3
\* SqsEventSource batchSize
batchSize == 10
\* 7 * 24 * 60 * 60
TtlSeconds == 604800

NULL == 0 - 1

EventIds == 1 .. MaxRecords
Times == 0 .. MaxTime
Orgs == {"o1"}
Publishers == {1, 2}
Projectors == {1, 2}
\* event_type values the ledger may hold: the one the projector has a rule
\* for, and one it has none for.
EventTypes == {"WorkOrderCreated", "WorkOrderStatusChanged"}

VARIABLES
    api,                    \* createWorkOrder invocation: pc and its open transaction
    now,                    \* wall clock, milliseconds
    work_orders,            \* Postgres table work_orders (set of rows)
    outbox,                 \* Postgres table outbox: event id -> row
    pub,                    \* publisher invocations: pc, res.rows, loop index, log
    snsSent,                \* history: event ids whose snsClient.send resolved
    queue,                  \* SQS ProjectorQueue: bag of visible messages
    dlq,                    \* SQS ProjectorDLQ: dead-lettered messages
    proj,                   \* projector invocations: pc, event.Records, loop index
    WORK_ORDER_TABLE,       \* DynamoDB projections (set of items, key pk+sk)
    PROCESSED_EVENTS_TABLE  \* DynamoDB dedupe ledger (set of items, key eventId)

vars == <<api, now, work_orders, outbox, pub, snsSent, queue, dlq, proj,
          WORK_ORDER_TABLE, PROCESSED_EVENTS_TABLE>>

\* ------------------------------------------------------------ conversions
\* Date.prototype.toISOString(): a Date (ms) rendered as an ISO-8601 string.
toISOString(d) == <<"ISO", d>>
\* new Date(isoString): the ms value the string denotes.
ParseDate(s) == s[2]
\* Math.floor(Date.now() / 1000)
EpochSeconds(ms) == ms \div 1000

\* ---------------------------------------------------------------- helpers
RECURSIVE SeqSum(_)
SeqSum(s) == IF s = <<>> THEN 0 ELSE Head(s) + SeqSum(Tail(s))

Range(s) == {s[k] : k \in 1 .. Len(s)}

\* The key of an item: its values at the table's key attributes.
KeyOf(item, attrs) == [a \in attrs |-> item[a]]

\* Mutant of PutItem: the put leaves the item alone in the table.
PutItemTruncates(table, item, attrs) == {item}

\* Mutant of PutItem: the put adds the item and keeps the one at its key.
PutItemAppends(table, item, attrs) == table \cup {item}

\* DynamoDB PutCommand: the item replaces whatever item has the same key.
PutItem(table, item, attrs) ==
    {x \in table : KeyOf(x, attrs) # KeyOf(item, attrs)} \cup {item}

\* Mutant of ProjectionKey: projectedAt is part of the key.
ProjectionKeyWithProjectedAt == {"pk", "sk", "projectedAt"}

\* Mutant of ProjectionKey: the table is keyed by the partition key alone.
ProjectionKeyPartitionOnly == {"pk"}

\* Key attributes of the two DynamoDB tables.
ProjectionKey == {"pk", "sk"}
DedupeKey == {"eventId"}

\* ------------------------------------------------ write side (API lambda)
\* The work_orders row INSERT ... RETURNING * gives back (status defaults to
\* 'OPEN', created_at/updated_at to CURRENT_TIMESTAMP).
WorkOrderRow(n, orgId, t) ==
    [id |-> <<"wo", n>>, org_id |-> orgId, customer_id |-> "c1",
     status |-> "OPEN", title |-> "title", description |-> NULL,
     address |-> NULL, scheduled_at |-> NULL,
     created_at |-> t, updated_at |-> t, trace_id |-> <<"trace", n>>]

\* JSON.stringify(createdWorkOrder) stored as JSONB: Dates become ISO strings.
PayloadOf(wo) ==
    [id |-> wo.id, org_id |-> wo.org_id, customer_id |-> wo.customer_id,
     status |-> wo.status, title |-> wo.title, description |-> wo.description,
     address |-> wo.address, scheduled_at |-> wo.scheduled_at,
     created_at |-> toISOString(wo.created_at),
     updated_at |-> toISOString(wo.updated_at)]

\* Mutant of OutboxRow: published_at defaults to CURRENT_TIMESTAMP as
\* occurred_at does.
OutboxRowPublishedOnInsert(n, eventType, aggregateId, aggregateType, payload, traceId, t) ==
    [id |-> n, event_type |-> eventType, aggregate_id |-> aggregateId,
     aggregate_type |-> aggregateType, payload |-> payload,
     occurred_at |-> t, published_at |-> t, version |-> 1,
     trace_id |-> traceId]

\* An outbox row as the table defaults complete it: occurred_at is
\* CURRENT_TIMESTAMP, published_at NULL, version 1.
OutboxRow(n, eventType, aggregateId, aggregateType, payload, traceId, t) ==
    [id |-> n, event_type |-> eventType, aggregate_id |-> aggregateId,
     aggregate_type |-> aggregateType, payload |-> payload,
     occurred_at |-> t, published_at |-> NULL, version |-> 1,
     trace_id |-> traceId]

NextEventId == Cardinality(DOMAIN outbox) + 1

\* createWorkOrder: BEGIN; INSERT work_orders; INSERT outbox; COMMIT.
createWorkOrder(orgId) ==
    /\ NextEventId <= MaxRecords
    /\ LET n == NextEventId
           createdWorkOrder == WorkOrderRow(n, orgId, now)
           row == OutboxRow(n, "WorkOrderCreated", createdWorkOrder.id,
                            "WorkOrderCreated", PayloadOf(createdWorkOrder),
                            createdWorkOrder.trace_id, now)
       IN  /\ work_orders' = work_orders \cup {createdWorkOrder}
           /\ outbox' = [k \in DOMAIN outbox \cup {n} |->
                            IF k = n THEN row ELSE outbox[k]]
    /\ UNCHANGED <<api, now, pub, snsSent, queue, dlq, proj,
                   WORK_ORDER_TABLE, PROCESSED_EVENTS_TABLE>>

\* createWorkOrder statement by statement. Rows inserted inside the open
\* transaction are visible to nobody else until COMMIT.
NoRow == [id |-> NULL]

IdleApi == [pc |-> "idle", createdWorkOrder |-> NoRow, outboxRow |-> NoRow]

\* const client = await createDBClient(); await client.query("BEGIN")
Begin ==
    /\ api.pc = "idle"
    /\ NextEventId <= MaxRecords
    /\ api' = [api EXCEPT !.pc = "insertWorkOrder"]
    /\ UNCHANGED <<now, work_orders, outbox, pub, snsSent, queue, dlq, proj,
                   WORK_ORDER_TABLE, PROCESSED_EVENTS_TABLE>>

\* INSERT INTO work_orders ... RETURNING * resolved.
InsertWorkOrderOk(orgId) ==
    /\ api.pc = "insertWorkOrder"
    /\ api' = [api EXCEPT !.pc = "insertOutbox",
                          !.createdWorkOrder = WorkOrderRow(NextEventId, orgId, now)]
    /\ UNCHANGED <<now, work_orders, outbox, pub, snsSent, queue, dlq, proj,
                   WORK_ORDER_TABLE, PROCESSED_EVENTS_TABLE>>

\* INSERT INTO outbox resolved.
InsertOutboxOk ==
    /\ api.pc = "insertOutbox"
    /\ LET wo == api.createdWorkOrder
       IN  api' = [api EXCEPT !.pc = "commit",
                             !.outboxRow =
                                OutboxRow(NextEventId, "WorkOrderCreated", wo.id,
                                          "WorkOrderCreated", PayloadOf(wo),
                                          wo.trace_id, wo.created_at)]
    /\ UNCHANGED <<now, work_orders, outbox, pub, snsSent, queue, dlq, proj,
                   WORK_ORDER_TABLE, PROCESSED_EVENTS_TABLE>>

\* Mutant of StatementFail: the statements run in autocommit mode, the work
\* order an earlier statement inserted is already stored.
StatementFailAfterAutocommit ==
    /\ api.pc \in {"insertWorkOrder", "insertOutbox", "commit"}
    /\ api' = [api EXCEPT !.pc = "rollback"]
    /\ work_orders' = work_orders \cup
                         ({api.createdWorkOrder} \ {NoRow})
    /\ UNCHANGED <<now, outbox, pub, snsSent, queue, dlq, proj,
                   WORK_ORDER_TABLE, PROCESSED_EVENTS_TABLE>>

\* One of the two INSERTs or the COMMIT rejected with nothing committed: the
\* catch block logs and issues ROLLBACK.
StatementFail ==
    /\ api.pc \in {"insertWorkOrder", "insertOutbox", "commit"}
    /\ api' = [api EXCEPT !.pc = "rollback"]
    /\ UNCHANGED <<now, work_orders, outbox, pub, snsSent, queue, dlq, proj,
                   WORK_ORDER_TABLE, PROCESSED_EVENTS_TABLE>>

\* The two rows of the transaction become visible together.
Committed ==
    /\ work_orders' = work_orders \cup {api.createdWorkOrder}
    /\ outbox' = [k \in DOMAIN outbox \cup {api.outboxRow.id} |->
                    IF k = api.outboxRow.id THEN api.outboxRow ELSE outbox[k]]

\* COMMIT resolved; the resolver returns the work order.
CommitOk ==
    /\ api.pc = "commit"
    /\ Committed
    /\ api' = IdleApi
    /\ UNCHANGED <<now, pub, snsSent, queue, dlq, proj,
                   WORK_ORDER_TABLE, PROCESSED_EVENTS_TABLE>>

\* COMMIT took effect but its reply was lost (the connection broke): the
\* catch block runs.
CommitLost ==
    /\ api.pc = "commit"
    /\ Committed
    /\ api' = [IdleApi EXCEPT !.pc = "rollback"]
    /\ UNCHANGED <<now, pub, snsSent, queue, dlq, proj,
                   WORK_ORDER_TABLE, PROCESSED_EVENTS_TABLE>>

\* ROLLBACK resolved or rejected (its error is logged); creationError is
\* rethrown and client.end() closes the connection, which discards whatever
\* the transaction had not committed.
Rollback ==
    /\ api.pc = "rollback"
    /\ api' = IdleApi
    /\ UNCHANGED <<now, work_orders, outbox, pub, snsSent, queue, dlq, proj,
                   WORK_ORDER_TABLE, PROCESSED_EVENTS_TABLE>>

\* A ledger writer other than createWorkOrder: a change of a type the
\* projector has no rule for, about an existing work order.
InsertOtherChange(wo) ==
    /\ NextEventId <= MaxRecords
    /\ wo \in work_orders
    /\ LET n == NextEventId
           row == OutboxRow(n, "WorkOrderStatusChanged", wo.id, "WorkOrder",
                            [PayloadOf(wo) EXCEPT !.status = "CLOSED"],
                            wo.trace_id, now)
       IN  outbox' = [k \in DOMAIN outbox \cup {n} |->
                         IF k = n THEN row ELSE outbox[k]]
    /\ UNCHANGED <<api, now, work_orders, pub, snsSent, queue, dlq, proj,
                   WORK_ORDER_TABLE, PROCESSED_EVENTS_TABLE>>

\* ------------------------------------------------------ publisher lambda
\* connected: the invocation holds an open connection to the ledger.
IdlePublisher ==
    [pc |-> "idle", rows |-> <<>>, i |-> 0, log |-> <<>>, connected |-> FALSE]

\* Mutant of Unpublished: the select has no WHERE clause.
UnpublishedOrNot == DOMAIN outbox

\* SELECT * from outbox WHERE published_at IS NULL ORDER BY occurred_at ASC
\* LIMIT 10
Unpublished == {k \in DOMAIN outbox : outbox[k].published_at = NULL}

\* Mutant of Before: ORDER BY id.
BeforeById(r1, r2) ==
    r1.id < r2.id

\* ORDER BY occurred_at ASC. CURRENT_TIMESTAMP has microsecond resolution: rows
\* inserted within the same millisecond of `now` keep their insertion order.
Before(r1, r2) ==
    \/ r1.occurred_at < r2.occurred_at
    \/ r1.occurred_at = r2.occurred_at /\ r1.id < r2.id

\* The rows with ids in S in that order: position a holds the row that has
\* a - 1 rows of S before it.
Sorted(S) ==
    [a \in 1 .. Cardinality(S) |->
        outbox[CHOOSE k \in S :
                  Cardinality({y \in S : Before(outbox[y], outbox[k])}) = a - 1]]

\* Mutant of SelectUnpublished: LIMIT 1.
SelectOldestUnpublished ==
    {SubSeq(Sorted(Unpublished), 1, IF Unpublished = {} THEN 0 ELSE 1)}

SelectUnpublished ==
    LET n == IF Cardinality(Unpublished) < BatchLimit
             THEN Cardinality(Unpublished) ELSE BatchLimit
    IN  {SubSeq(Sorted(Unpublished), 1, n)}

\* Mutant of eventEnvelope: the envelope carries a trace id of the publisher
\* invocation, not the record's.
eventEnvelopeWithOwnTraceId(row) ==
    [aggregateId |-> row.aggregate_id,
     aggregateType |-> row.aggregate_type,
     data |-> row.payload,
     id |-> row.id,
     occurredAt |-> toISOString(row.occurred_at),
     type |-> row.event_type,
     version |-> row.version,
     traceId |-> <<"trace", 0>>]

\* const eventEnvelope: EventEnvelope = {...}
eventEnvelope(row) ==
    [aggregateId |-> row.aggregate_id,
     aggregateType |-> row.aggregate_type,
     data |-> row.payload,
     id |-> row.id,
     occurredAt |-> toISOString(row.occurred_at),
     type |-> row.event_type,
     version |-> row.version,
     traceId |-> row.trace_id]

\* What the SQS subscription of the topic holds for one PublishCommand.
SqsMessage(envelope) ==
    [Message |-> envelope, eventType |-> envelope.type, receiveCount |-> 0]

\* Messages that are queued or held by a projector invocation.
LiveMessages ==
    BagCardinality(queue) +
    SeqSum([j \in 1 .. Cardinality(Projectors) |-> Len(proj[j].records)])

\* handler entry: createDBClient() resolved.
Invoke(p) ==
    /\ pub[p].pc = "idle"
    /\ pub' = [pub EXCEPT ![p].pc = "select", ![p].connected = TRUE]
    /\ UNCHANGED <<api, now, work_orders, outbox, snsSent, queue, dlq, proj,
                   WORK_ORDER_TABLE, PROCESSED_EVENTS_TABLE>>

\* handler entry: createDBClient() rejected (client.connect() failed). The call
\* is outside the try block: the rejection is the invocation's result.
ConnectFail(p) ==
    /\ pub[p].pc = "idle"
    /\ pub' = [pub EXCEPT ![p].pc = "raise", ![p].log = <<"connectFailed">>]
    /\ UNCHANGED <<api, now, work_orders, outbox, snsSent, queue, dlq, proj,
                   WORK_ORDER_TABLE, PROCESSED_EVENTS_TABLE>>

\* Mutant of Select: the select returns no rows.
SelectFindsNothing(p) ==
    /\ pub[p].pc = "select"
    /\ pub' = [pub EXCEPT ![p] = IdlePublisher]
    /\ UNCHANGED <<api, now, work_orders, outbox, snsSent, queue, dlq, proj,
                   WORK_ORDER_TABLE, PROCESSED_EVENTS_TABLE>>

\* Mutant of Select: no test of res.rows.length, an empty result goes
\* through the loop to the normal return.
SelectWithoutEmptyTest(p) ==
    /\ pub[p].pc = "select"
    /\ \E rows \in SelectUnpublished :
          pub' = [pub EXCEPT ![p].pc = IF Len(rows) = 0 THEN "return" ELSE "send",
                             ![p].rows = rows,
                             ![p].i = 1]
    /\ UNCHANGED <<api, now, work_orders, outbox, snsSent, queue, dlq, proj,
                   WORK_ORDER_TABLE, PROCESSED_EVENTS_TABLE>>

\* The batch select resolved: on an empty result the handler is about to
\* return 204, otherwise the loop starts.
Select(p) ==
    /\ pub[p].pc = "select"
    /\ \E rows \in SelectUnpublished :
          pub' = [pub EXCEPT ![p].pc = IF Len(rows) = 0 THEN "empty" ELSE "send",
                             ![p].rows = rows,
                             ![p].i = IF Len(rows) = 0 THEN 0 ELSE 1]
    /\ UNCHANGED <<api, now, work_orders, outbox, snsSent, queue, dlq, proj,
                   WORK_ORDER_TABLE, PROCESSED_EVENTS_TABLE>>

\* Mutant of SelectFail: the outer catch logs the error and the handler
\* returns normally.
SelectFailSwallowed(p) ==
    /\ pub[p].pc = "select"
    /\ pub' = [pub EXCEPT ![p].pc = "return", ![p].log = <<"selectFailed">>]
    /\ UNCHANGED <<api, now, work_orders, outbox, snsSent, queue, dlq, proj,
                   WORK_ORDER_TABLE, PROCESSED_EVENTS_TABLE>>

\* The batch select rejected: the outer catch logs and rethrows.
SelectFail(p) ==
    /\ pub[p].pc = "select"
    /\ pub' = [pub EXCEPT ![p].pc = "raise", ![p].log = <<"selectFailed">>]
    /\ UNCHANGED <<api, now, work_orders, outbox, snsSent, queue, dlq, proj,
                   WORK_ORDER_TABLE, PROCESSED_EVENTS_TABLE>>

\* Mutant of NextRow: a failed row ends the loop.
NextRowAbortsBatch(p, outcome) ==
    [pub[p] EXCEPT !.pc = IF pub[p].i = Len(pub[p].rows) \/ outcome # "published"
                          THEN "return" ELSE "send",
                   !.i = pub[p].i + 1,
                   !.log = Append(pub[p].log, outcome)]

\* Mutant of NextRow: the loop steps over the row after the current one.
NextRowSkipsOne(p, outcome) ==
    [pub[p] EXCEPT !.pc = IF pub[p].i + 1 >= Len(pub[p].rows) THEN "return" ELSE "send",
                   !.i = pub[p].i + 2,
                   !.log = Append(pub[p].log, outcome)]

\* The loop moves to the next row, or leaves the loop after the last one.
NextRow(p, outcome) ==
    [pub[p] EXCEPT !.pc = IF pub[p].i = Len(pub[p].rows) THEN "return" ELSE "send",
                   !.i = pub[p].i + 1,
                   !.log = Append(pub[p].log, outcome)]

\* await snsClient.send(new PublishCommand(...)) resolved.
SendOk(p) ==
    /\ pub[p].pc = "send"
    /\ LET row == pub[p].rows[pub[p].i]
       IN  /\ LiveMessages < MaxCopies
           /\ queue' = queue (+) SetToBag({SqsMessage(eventEnvelope(row))})
           /\ snsSent' = snsSent \cup {row.id}
    /\ pub' = [pub EXCEPT ![p].pc = "mark"]
    /\ UNCHANGED <<api, now, work_orders, outbox, dlq, proj,
                   WORK_ORDER_TABLE, PROCESSED_EVENTS_TABLE>>

\* Mutant of SendFail: a rejected send falls through to the UPDATE.
SendFailThenMark(p) ==
    /\ pub[p].pc = "send"
    /\ pub' = [pub EXCEPT ![p].pc = "mark"]
    /\ UNCHANGED <<api, now, work_orders, outbox, snsSent, queue, dlq, proj,
                   WORK_ORDER_TABLE, PROCESSED_EVENTS_TABLE>>

\* snsClient.send rejected: the inner catch logs and the loop goes on.
SendFail(p) ==
    /\ pub[p].pc = "send"
    /\ pub' = [pub EXCEPT ![p] = NextRow(p, "sendFailed")]
    /\ UNCHANGED <<api, now, work_orders, outbox, snsSent, queue, dlq, proj,
                   WORK_ORDER_TABLE, PROCESSED_EVENTS_TABLE>>

\* UPDATE outbox SET published_at = NOW() WHERE id = $1
markPublished(k) ==
    [outbox EXCEPT ![k].published_at = now]

MarkOk(p) ==
    /\ pub[p].pc = "mark"
    /\ outbox' = markPublished(pub[p].rows[pub[p].i].id)
    /\ pub' = [pub EXCEPT ![p] = NextRow(p, "published")]
    /\ UNCHANGED <<api, now, work_orders, snsSent, queue, dlq, proj,
                   WORK_ORDER_TABLE, PROCESSED_EVENTS_TABLE>>

\* Mutant of MarkFail: the failure path clears published_at for a retry.
MarkFailResets(p) ==
    /\ pub[p].pc = "mark"
    /\ outbox' = [outbox EXCEPT ![pub[p].rows[pub[p].i].id].published_at = NULL]
    /\ pub' = [pub EXCEPT ![p] = NextRow(p, "markFailed")]
    /\ UNCHANGED <<api, now, work_orders, snsSent, queue, dlq, proj,
                   WORK_ORDER_TABLE, PROCESSED_EVENTS_TABLE>>

\* Mutant of MarkFail: the rejected UPDATE has taken effect all the same.
MarkFailStillMarks(p) ==
    /\ pub[p].pc = "mark"
    /\ outbox' = markPublished(pub[p].rows[pub[p].i].id)
    /\ pub' = [pub EXCEPT ![p] = NextRow(p, "markFailed")]
    /\ UNCHANGED <<api, now, work_orders, snsSent, queue, dlq, proj,
                   WORK_ORDER_TABLE, PROCESSED_EVENTS_TABLE>>

\* Mutant of MarkFail: the rejected UPDATE escapes the loop and fails the
\* invocation.
MarkFailRaises(p) ==
    /\ pub[p].pc = "mark"
    /\ pub' = [pub EXCEPT ![p].pc = "raise",
                          ![p].log = Append(pub[p].log, "markFailed")]
    /\ UNCHANGED <<api, now, work_orders, outbox, snsSent, queue, dlq, proj,
                   WORK_ORDER_TABLE, PROCESSED_EVENTS_TABLE>>

\* The UPDATE rejected: the inner catch logs and the loop goes on.
MarkFail(p) ==
    /\ pub[p].pc = "mark"
    /\ pub' = [pub EXCEPT ![p] = NextRow(p, "markFailed")]
    /\ UNCHANGED <<api, now, work_orders, outbox, snsSent, queue, dlq, proj,
                   WORK_ORDER_TABLE, PROCESSED_EVENTS_TABLE>>

\* What the handler returns: {statusCode: 204} when the select found nothing,
\* {statusCode: 200, message: `Processed ${res.rows.length} events`} after
\* the loop (the message is carried as the number it is formatted from).
Result(p) ==
    IF pub[p].pc = "empty" THEN [statusCode |-> 204]
    ELSE [statusCode |-> 200, processed |-> Len(pub[p].rows)]

\* Mutant of ReturnEmpty: the early return leaves before the connection is
\* closed.
ReturnEmptyKeepsConnection(p) ==
    /\ pub[p].pc = "empty"
    /\ pub' = [pub EXCEPT ![p] = [IdlePublisher EXCEPT !.connected = TRUE]]
    /\ UNCHANGED <<api, now, work_orders, outbox, snsSent, queue, dlq, proj,
                   WORK_ORDER_TABLE, PROCESSED_EVENTS_TABLE>>

\* return {statusCode: 204}; finally: await client.end().
ReturnEmpty(p) ==
    /\ pub[p].pc = "empty"
    /\ pub' = [pub EXCEPT ![p] = IdlePublisher]
    /\ UNCHANGED <<api, now, work_orders, outbox, snsSent, queue, dlq, proj,
                   WORK_ORDER_TABLE, PROCESSED_EVENTS_TABLE>>

\* return {statusCode: 200, ...}; finally: await client.end().
Return(p) ==
    /\ pub[p].pc = "return"
    /\ pub' = [pub EXCEPT ![p] = IdlePublisher]
    /\ UNCHANGED <<api, now, work_orders, outbox, snsSent, queue, dlq, proj,
                   WORK_ORDER_TABLE, PROCESSED_EVENTS_TABLE>>

\* The invocation ends with the propagated error (throw error; finally:
\* await client.end()).
Throw(p) ==
    /\ pub[p].pc = "raise"
    /\ pub' = [pub EXCEPT ![p] = IdlePublisher]
    /\ UNCHANGED <<api, now, work_orders, outbox, snsSent, queue, dlq, proj,
                   WORK_ORDER_TABLE, PROCESSED_EVENTS_TABLE>>

\* Mutant of Timeout: the marks of the batch are undone, as if the batch were
\* one transaction.
TimeoutRollsBack(p) ==
    /\ pub[p].pc \in {"select", "empty", "send", "mark", "return"}
    /\ outbox' = [k \in DOMAIN outbox |->
                    IF \E a \in 1 .. Len(pub[p].rows) : pub[p].rows[a].id = k
                    THEN [outbox[k] EXCEPT !.published_at = NULL]
                    ELSE outbox[k]]
    /\ pub' = [pub EXCEPT ![p].pc = "timeout"]
    /\ UNCHANGED <<api, now, work_orders, snsSent, queue, dlq, proj,
                   WORK_ORDER_TABLE, PROCESSED_EVENTS_TABLE>>

\* The function timeout (30 s) ends the invocation wherever it is; a send or
\* an UPDATE that was being awaited has reached its service or has not.
Timeout(p) ==
    /\ pub[p].pc \in {"select", "empty", "send", "mark", "return"}
    /\ LET row == pub[p].rows[pub[p].i]
       IN  \/ UNCHANGED <<outbox, queue, snsSent>>
           \/ /\ pub[p].pc = "send"
              /\ LiveMessages < MaxCopies
              /\ queue' = queue (+) SetToBag({SqsMessage(eventEnvelope(row))})
              /\ snsSent' = snsSent \cup {row.id}
              /\ UNCHANGED outbox
           \/ /\ pub[p].pc = "mark"
              /\ outbox' = markPublished(row.id)
              /\ UNCHANGED <<queue, snsSent>>
    /\ pub' = [pub EXCEPT ![p].pc = "timeout"]
    /\ UNCHANGED <<api, now, work_orders, dlq, proj,
                   WORK_ORDER_TABLE, PROCESSED_EVENTS_TABLE>>

\* The execution environment of the timed out invocation is gone; the
\* schedule starts the next one.
Discard(p) ==
    /\ pub[p].pc = "timeout"
    /\ pub' = [pub EXCEPT ![p] = IdlePublisher]
    /\ UNCHANGED <<api, now, work_orders, outbox, snsSent, queue, dlq, proj,
                   WORK_ORDER_TABLE, PROCESSED_EVENTS_TABLE>>

\* ------------------------------------------------------ SQS ProjectorQueue
\* Every batch (a sequence of at most n messages) a poll may take from bag q.
RECURSIVE Batches(_, _)
Batches(q, n) ==
    IF n = 0 THEN {<<>>}
    ELSE {<<>>} \cup
         UNION {{<<m>> \o t : t \in Batches(q (-) SetToBag({m}), n - 1)} :
                   m \in BagToSet(q)}

BagOfSeq(s) ==
    LET RECURSIVE Build(_)
        Build(t) == IF t = <<>> THEN EmptyBag
                    ELSE SetToBag({Head(t)}) (+) Build(Tail(t))
    IN  Build(s)

Received(m) == [m EXCEPT !.receiveCount = m.receiveCount + 1]

\* ------------------------------------------------------ projector lambda
\* No PutCommand input has been built.
NoItem == [eventId |-> NULL]

IdleProjector == [pc |-> "idle", records |-> <<>>, i |-> 0, item |-> NoItem]

\* The event source mapping polls up to batchSize messages and invokes handler.
Receive(j, batch) ==
    /\ proj[j].pc = "idle"
    /\ Len(batch) >= 1
    /\ Len(batch) <= batchSize
    /\ queue' = queue (-) BagOfSeq(batch)
    /\ proj' = [proj EXCEPT ![j] =
                  [pc |-> "get", i |-> 1, item |-> NoItem,
                   records |-> [k \in 1 .. Len(batch) |-> Received(batch[k])]]]
    /\ UNCHANGED <<api, now, work_orders, outbox, pub, snsSent, dlq,
                   WORK_ORDER_TABLE, PROCESSED_EVENTS_TABLE>>

\* JSON.parse(JSON.parse(record.body).Message)
Envelope(j) == proj[j].records[proj[j].i].Message

\* Mutant of dbItem: the sort key carries the projection time.
dbItemKeyedByProjectionTime(envelope, t) ==
    LET data == envelope.data
    IN  [pk |-> <<"ORG#", data.org_id>>,
         sk |-> <<"STATUS#", data.status, "#TS#", toISOString(t), "#WO#", data.id>>,
         address |-> data.address,
         createdAt |-> toISOString(ParseDate(data.created_at)),
         customerId |-> data.customer_id,
         description |-> data.description,
         entityType |-> envelope.aggregateType,
         orgId |-> data.org_id,
         projectedAt |-> toISOString(t),
         scheduledAt |-> data.scheduled_at,
         sourceEventId |-> envelope.id,
         sourceEventType |-> envelope.type,
         status |-> data.status,
         title |-> data.title,
         updatedAt |-> toISOString(ParseDate(data.updated_at)),
         workOrderId |-> data.id]

\* Mutant of dbItem: the sort key ends with the status and the time the row
\* was built, without the work order id.
dbItemKeyWithoutId(envelope, t) ==
    [dbItemKeyedByProjectionTime(envelope, t) EXCEPT
        !.sk = <<"STATUS#", envelope.data.status, "#TS#", toISOString(t)>>]

\* const dbItem: WorkOrderProjection = {...}, built at time t.
dbItem(envelope, t) ==
    LET data == envelope.data
    IN  [pk |-> <<"ORG#", data.org_id>>,
         sk |-> <<"STATUS#", data.status, "#TS#",
                  toISOString(ParseDate(data.created_at)), "#WO#", data.id>>,
         address |-> data.address,
         createdAt |-> toISOString(ParseDate(data.created_at)),
         customerId |-> data.customer_id,
         description |-> data.description,
         entityType |-> envelope.aggregateType,
         orgId |-> data.org_id,
         projectedAt |-> toISOString(t),
         scheduledAt |-> data.scheduled_at,
         sourceEventId |-> envelope.id,
         sourceEventType |-> envelope.type,
         status |-> data.status,
         title |-> data.title,
         updatedAt |-> toISOString(ParseDate(data.updated_at)),
         workOrderId |-> data.id]

\* Mutant of processedEvent: the expiry is counted in milliseconds.
processedEventTtlInMillis(envelope, t) ==
    [eventId |-> envelope.id,
     eventType |-> envelope.type,
     processedAt |-> toISOString(t),
     ttl |-> t + TtlSeconds * 1000]

\* const processedEvent: ProcessedEvent = {...}, built at time t.
processedEvent(envelope, t) ==
    [eventId |-> envelope.id,
     eventType |-> envelope.type,
     processedAt |-> toISOString(t),
     ttl |-> EpochSeconds(t) + TtlSeconds]

\* processEvent returned: the for loop takes the next record, or the handler
\* returns 200 after the last one.
NextRecord(j) ==
    [proj[j] EXCEPT !.pc = IF proj[j].i = Len(proj[j].records) THEN "ack" ELSE "get",
                    !.i = proj[j].i + 1,
                    !.item = NoItem]

\* Mutant of AlreadyProcessed: the lookup never finds the item.
AlreadyProcessedNeverFound(envelope) == FALSE

\* if (result.Item) return;
AlreadyProcessed(envelope) ==
    \E x \in PROCESSED_EVENTS_TABLE : x.eventId = envelope.id

\* if (envelope.type === "WorkOrderCreated")
HasProjectionRule(envelope) == envelope.type = "WorkOrderCreated"

\* The GetCommand resolved: skip when the ledger has the id; otherwise build
\* dbItem and issue its PutCommand, or (no rule for the type) return.
GetOk(j) ==
    /\ proj[j].pc = "get"
    /\ proj' = [proj EXCEPT ![j] =
                  IF AlreadyProcessed(Envelope(j)) THEN NextRecord(j)
                  ELSE IF HasProjectionRule(Envelope(j))
                  THEN [proj[j] EXCEPT !.pc = "put",
                                       !.item = dbItem(Envelope(j), now)]
                  ELSE NextRecord(j)]
    /\ UNCHANGED <<api, now, work_orders, outbox, pub, snsSent, queue, dlq,
                   WORK_ORDER_TABLE, PROCESSED_EVENTS_TABLE>>

\* Mutant of PutOk: the dedupe write is issued without the projection write
\* having been made.
PutOkWritesNothing(j) ==
    /\ proj[j].pc = "put"
    /\ proj' = [proj EXCEPT ![j].pc = "dedupe",
                            ![j].item = processedEvent(Envelope(j), now)]
    /\ UNCHANGED <<api, now, work_orders, outbox, pub, snsSent, queue, dlq,
                   WORK_ORDER_TABLE, PROCESSED_EVENTS_TABLE>>

\* The PutCommand of dbItem resolved; processedEvent is built and its
\* PutCommand issued.
PutOk(j) ==
    /\ proj[j].pc = "put"
    /\ WORK_ORDER_TABLE' = PutItem(WORK_ORDER_TABLE, proj[j].item, ProjectionKey)
    /\ proj' = [proj EXCEPT ![j].pc = "dedupe",
                            ![j].item = processedEvent(Envelope(j), now)]
    /\ UNCHANGED <<api, now, work_orders, outbox, pub, snsSent, queue, dlq,
                   PROCESSED_EVENTS_TABLE>>

\* Mutant of DedupeOk: processEvent returns although the DedupeRecord was not
\* stored.
DedupeOkWritesNothing(j) ==
    /\ proj[j].pc = "dedupe"
    /\ proj' = [proj EXCEPT ![j] = NextRecord(j)]
    /\ UNCHANGED <<api, now, work_orders, outbox, pub, snsSent, queue, dlq,
                   WORK_ORDER_TABLE, PROCESSED_EVENTS_TABLE>>

\* The PutCommand of processedEvent resolved; processEvent returns.
DedupeOk(j) ==
    /\ proj[j].pc = "dedupe"
    /\ PROCESSED_EVENTS_TABLE' =
          PutItem(PROCESSED_EVENTS_TABLE, proj[j].item, DedupeKey)
    /\ proj' = [proj EXCEPT ![j] = NextRecord(j)]
    /\ UNCHANGED <<api, now, work_orders, outbox, pub, snsSent, queue, dlq,
                   WORK_ORDER_TABLE>>

\* Mutant of Redeliverable: no redrive policy, every failed message becomes
\* visible again.
RedeliverableAlways(records) == records

\* Mutant of Redeliverable: a failed batch is deleted like a successful one.
RedeliverableNone(records) == <<>>

\* The messages of a batch that was not deleted: each becomes visible again
\* until it has been received maxReceiveCount times, and is then moved to the
\* dead-letter queue instead of being delivered again.
Redeliverable(records) ==
    SelectSeq(records, LAMBDA m : m.receiveCount < maxReceiveCount)

\* Mutant of DeadLettered: a message over the receive limit is dropped.
DeadLetteredNone(records) == {}

DeadLettered(records) ==
    {m \in Range(records) : m.receiveCount >= maxReceiveCount}

\* Mutant of Raise: the failing invocation takes back the rows it wrote for
\* the earlier records of its batch.
RaiseUndoesBatch(j) ==
    /\ proj[j].pc \in {"get", "put", "dedupe"}
    /\ queue' = queue (+) BagOfSeq(Redeliverable(proj[j].records))
    /\ dlq' = dlq \cup DeadLettered(proj[j].records)
    /\ proj' = [proj EXCEPT ![j] = IdleProjector]
    /\ WORK_ORDER_TABLE' =
          {r \in WORK_ORDER_TABLE :
              \A a \in 1 .. Len(proj[j].records) :
                 proj[j].records[a].Message.id # r.sourceEventId}
    /\ PROCESSED_EVENTS_TABLE' =
          {d \in PROCESSED_EVENTS_TABLE :
              \A a \in 1 .. Len(proj[j].records) :
                 proj[j].records[a].Message.id # d.eventId}
    /\ UNCHANGED <<api, now, work_orders, outbox, pub, snsSent>>

\* A DynamoDB command rejected inside processEvent: the catch of handler logs
\* and rethrows, the invocation fails and nothing of its batch is deleted.
Raise(j) ==
    /\ proj[j].pc \in {"get", "put", "dedupe"}
    /\ queue' = queue (+) BagOfSeq(Redeliverable(proj[j].records))
    /\ dlq' = dlq \cup DeadLettered(proj[j].records)
    /\ proj' = [proj EXCEPT ![j] = IdleProjector]
    /\ UNCHANGED <<api, now, work_orders, outbox, pub, snsSent,
                   WORK_ORDER_TABLE, PROCESSED_EVENTS_TABLE>>

\* handler returned {statusCode: 200}: the batch is deleted from the queue.
Ack(j) ==
    /\ proj[j].pc = "ack"
    /\ proj' = [proj EXCEPT ![j] = IdleProjector]
    /\ UNCHANGED <<api, now, work_orders, outbox, pub, snsSent, queue, dlq,
                   WORK_ORDER_TABLE, PROCESSED_EVENTS_TABLE>>

\* ------------------------------------------------------ read side (API lambda)
\* result.Items?.map((item) => ({id: item.workOrderId, ...}))
WorkOrderOf(item) ==
    [id |-> item.workOrderId, orgId |-> item.orgId,
     customerId |-> item.customerId, status |-> item.status,
     title |-> item.title, description |-> item.description,
     address |-> item.address, scheduledAt |-> item.scheduledAt,
     createdAt |-> item.createdAt]

\* workOrdersForOrg: Query with KeyConditionExpression "pk = :pk", the items
\* mapped to work orders (as a set: the claims on it are about membership).
workOrdersForOrg(orgId) ==
    {WorkOrderOf(item) : item \in {r \in WORK_ORDER_TABLE : r.pk = <<"ORG#", orgId>>}}

\* ------------------------------------------------------------------ clock
Tick ==
    /\ now < MaxTime
    /\ now' = now + 1
    /\ UNCHANGED <<api, work_orders, outbox, pub, snsSent, queue, dlq, proj,
                   WORK_ORDER_TABLE, PROCESSED_EVENTS_TABLE>>

\* ---------------------------------------------------------- specification
Init ==
    /\ now = 0
    /\ work_orders = {}
    /\ outbox = <<>>
    /\ pub = [p \in Publishers |-> IdlePublisher]
    /\ snsSent = {}
    /\ queue = EmptyBag
    /\ dlq = {}
    /\ proj = [j \in Projectors |-> IdleProjector]
    /\ WORK_ORDER_TABLE = {}
    /\ PROCESSED_EVENTS_TABLE = {}
    /\ api = IdleApi

WriterNext ==
    \/ \E orgId \in Orgs : createWorkOrder(orgId)
    \/ \E wo \in work_orders : InsertOtherChange(wo)

PublisherNext(P) ==
    \/ \E p \in P : Invoke(p)
    \/ \E p \in P : ConnectFail(p)
    \/ \E p \in P : Throw(p)
    \/ \E p \in P : Select(p)
    \/ \E p \in P : ReturnEmpty(p)
    \/ \E p \in P : SelectFail(p)
    \/ \E p \in P : SendOk(p)
    \/ \E p \in P : SendFail(p)
    \/ \E p \in P : MarkOk(p)
    \/ \E p \in P : MarkFail(p)
    \/ \E p \in P : Return(p)

ProjectorNext(J) ==
    \/ \E j \in J : \E batch \in Batches(queue, batchSize) : Receive(j, batch)
    \/ \E j \in J : GetOk(j)
    \/ \E j \in J : PutOk(j)
    \/ \E j \in J : DedupeOk(j)
    \/ \E j \in J : Raise(j)
    \/ \E j \in J : Ack(j)

\* The whole pipeline.
Next == Tick \/ WriterNext \/ PublisherNext(Publishers) \/ ProjectorNext(Projectors)

Spec == Init /\ [][Next]_vars

\* The write side and overlapping publisher invocations; nothing consumes
\* the queue.
PubNext ==
    \/ Tick
    \/ \E orgId \in Orgs : createWorkOrder(orgId)
    \/ PublisherNext(Publishers)

PubSpec == Init /\ [][PubNext]_vars

\* The ledger after the writers inserted rows 1 .. n of the given types at
\* time 0.
RECURSIVE LedgerOf(_)
LedgerOf(types) ==
    IF types = <<>> THEN <<>>
    ELSE LET n == Len(types)
             wo == WorkOrderRow(1, "o1", 0)
             row == IF types[n] = "WorkOrderCreated"
                    THEN LET w == WorkOrderRow(n, "o1", 0)
                         IN  OutboxRow(n, "WorkOrderCreated", w.id, "WorkOrderCreated",
                                       PayloadOf(w), w.trace_id, 0)
                    ELSE OutboxRow(n, "WorkOrderStatusChanged", wo.id, "WorkOrder",
                                   [PayloadOf(wo) EXCEPT !.status = "CLOSED"],
                                   wo.trace_id, 0)
         IN  Append(LedgerOf(SubSeq(types, 1, n - 1)), row)

\* The projector side alone, started from the states the publisher leaves
\* with nothing consumed yet: a ledger of one or two rows, each sent and
\* marked published, and at most MaxCopies messages in the queue (a send
\* followed by a failed markPublished, or two overlapping invocations, sends
\* a row more than once; the row sent more than once is the first one).
ProjLedgers ==
    {LedgerOf(<<"WorkOrderCreated">>)} \cup
    {LedgerOf(<<"WorkOrderCreated", type2>>) : type2 \in EventTypes}

ProjInitAt(t) ==
    /\ now = t
    /\ \E ledger \in ProjLedgers :
       \E copies \in [DOMAIN ledger -> 1 .. MaxCopies] :
          /\ SeqSum(copies) <= MaxCopies
          /\ \A k \in DOMAIN ledger : k > 1 => copies[k] = 1
          /\ outbox = [k \in DOMAIN ledger |-> [ledger[k] EXCEPT !.published_at = 0]]
          /\ work_orders = {WorkOrderRow(k, "o1", 0) :
                              k \in {x \in DOMAIN ledger :
                                        ledger[x].event_type = "WorkOrderCreated"}}
          /\ queue = [m \in {SqsMessage(eventEnvelope(ledger[k])) : k \in DOMAIN ledger}
                        |-> copies[m.Message.id]]
          /\ snsSent = DOMAIN ledger
    /\ pub = [p \in Publishers |-> IdlePublisher]
    /\ dlq = {}
    /\ proj = [j \in Projectors |-> IdleProjector]
    /\ WORK_ORDER_TABLE = {}
    /\ PROCESSED_EVENTS_TABLE = {}
    /\ api = IdleApi

ProjInit == ProjInitAt(0)

ProjNext == Tick \/ ProjectorNext(Projectors)

ProjSpec == ProjInit /\ [][ProjNext]_vars

\* The whole pipeline with one publisher invocation and one projector
\* invocation at a time, under the scheduling the deployment provides: the
\* rule fires the publisher every minute, SQS keeps offering visible messages
\* to the event source mapping, a started invocation runs on, and no call
\* (select, send, update, get, put) fails every time it is tried.
LivePublishers == {1}
LiveProjectors == {1}

\* One WorkOrderCreated row is committed and nothing has run yet.
LiveInit ==
    /\ now = 0
    /\ outbox = LedgerOf(<<"WorkOrderCreated">>)
    /\ work_orders = {WorkOrderRow(1, "o1", 0)}
    /\ pub = [p \in Publishers |-> IdlePublisher]
    /\ snsSent = {}
    /\ queue = EmptyBag
    /\ dlq = {}
    /\ proj = [j \in Projectors |-> IdleProjector]
    /\ WORK_ORDER_TABLE = {}
    /\ PROCESSED_EVENTS_TABLE = {}
    /\ api = IdleApi

LiveNext ==
    \/ PublisherNext(LivePublishers)
    \/ ProjectorNext(LiveProjectors)

\* Started invocations run on (WF); a call that is tried again and again
\* succeeds at some time (SF): failures are transient.
LiveFairness ==
    /\ WF_vars(PublisherNext(LivePublishers))
    /\ WF_vars(ProjectorNext(LiveProjectors))
    /\ \A p \in LivePublishers :
          /\ SF_vars(Invoke(p)) /\ SF_vars(Select(p))
          /\ SF_vars(SendOk(p)) /\ SF_vars(MarkOk(p))
    /\ \A j \in LiveProjectors :
          SF_vars(GetOk(j)) /\ SF_vars(PutOk(j)) /\ SF_vars(DedupeOk(j))

LiveSpec == LiveInit /\ [][LiveNext]_vars /\ LiveFairness

\* Overlapping publisher invocations feeding one projector invocation at a
\* time, from one committed WorkOrderCreated row.
\* An invocation that starts while a record is unpublished; those that start
\* later find nothing and send nothing.
OverlapInvoke(p) ==
    /\ Unpublished # {}
    /\ Invoke(p)

\* The ledger is reachable: connecting and the batch select succeed.
OverlapPublisherNext ==
    \/ \E p \in Publishers : OverlapInvoke(p)
    \/ \E p \in Publishers : Select(p)
    \/ \E p \in Publishers : ReturnEmpty(p)
    \/ \E p \in Publishers : SendOk(p)
    \/ \E p \in Publishers : SendFail(p)
    \/ \E p \in Publishers : MarkOk(p)
    \/ \E p \in Publishers : MarkFail(p)
    \/ \E p \in Publishers : Return(p)

OverlapNext ==
    \/ Tick
    \/ OverlapPublisherNext
    \/ ProjectorNext(LiveProjectors)

OverlapSpec == LiveInit /\ [][OverlapNext]_vars

\* A backlog: a ledger whose rows, all but the newest, are rows SNS rejects
\* on every attempt (one, BatchLimit - 1 or BatchLimit of them), relayed by
\* one publisher invocation at a time and consumed by one projector.
BacklogLedgers ==
    {LedgerOf([n \in 1 .. c + 1 |-> "WorkOrderCreated"]) :
        c \in {1, BatchLimit - 1, BatchLimit}}

BacklogInit ==
    /\ now = 0
    /\ outbox \in BacklogLedgers
    /\ work_orders = {WorkOrderRow(k, "o1", 0) : k \in DOMAIN outbox}
    /\ pub = [p \in Publishers |-> IdlePublisher]
    /\ snsSent = {}
    /\ queue = EmptyBag
    /\ dlq = {}
    /\ proj = [j \in Projectors |-> IdleProjector]
    /\ WORK_ORDER_TABLE = {}
    /\ PROCESSED_EVENTS_TABLE = {}
    /\ api = IdleApi

\* The rows whose send fails on every attempt.
Unsendable == {k \in DOMAIN outbox : k < Len(outbox)}

\* snsClient.send resolves, for a row SNS accepts.
SendOkSendable(p) ==
    /\ pub[p].pc = "send"
    /\ pub[p].rows[pub[p].i].id \notin Unsendable
    /\ SendOk(p)

\* The ledger is reachable: connecting and the batch select succeed.
BacklogPublisherNext ==
    \/ \E p \in LivePublishers : Invoke(p)
    \/ \E p \in LivePublishers : Select(p)
    \/ \E p \in LivePublishers : SendOkSendable(p)
    \/ \E p \in LivePublishers : SendFail(p)
    \/ \E p \in LivePublishers : MarkOk(p)
    \/ \E p \in LivePublishers : MarkFail(p)
    \/ \E p \in LivePublishers : Return(p)

BacklogNext ==
    \/ BacklogPublisherNext
    \/ ProjectorNext(LiveProjectors)

\* As LiveFairness: invocations run on, and a call that can succeed does so
\* when tried again and again.
BacklogFairness ==
    /\ WF_vars(BacklogPublisherNext)
    /\ WF_vars(ProjectorNext(LiveProjectors))
    /\ \A p \in LivePublishers :
          SF_vars(SendOkSendable(p)) /\ SF_vars(MarkOk(p))

BacklogSpec == BacklogInit /\ [][BacklogNext]_vars /\ BacklogFairness

\* The publisher alone over ledgers a batch select has to choose from: 2 or
\* BatchLimit + 1 committed rows, of which the first or the last may have
\* been written later than the others and the first or the last may be
\* published already (ids are UUIDs: their order says nothing about time).
SelectEnds(n) == {{}, {1}, {n}}

SelectRow(k, t, publishedAt) ==
    LET w == WorkOrderRow(k, "o1", t)
    IN  [OutboxRow(k, "WorkOrderCreated", w.id, "WorkOrderCreated",
                   PayloadOf(w), w.trace_id, t)
            EXCEPT !.published_at = publishedAt]

SelectLedgers ==
    UNION {{[k \in 1 .. n |->
                SelectRow(k, IF k \in late THEN MaxTime ELSE 0,
                             IF k \in done THEN MaxTime ELSE NULL)] :
              late \in SelectEnds(n), done \in SelectEnds(n)} :
           n \in {2, BatchLimit + 1}}

SelectInit ==
    /\ now = MaxTime
    /\ outbox \in SelectLedgers
    /\ work_orders = {WorkOrderRow(k, "o1", outbox[k].occurred_at) : k \in DOMAIN outbox}
    /\ pub = [p \in Publishers |-> IdlePublisher]
    /\ snsSent = {k \in DOMAIN outbox : outbox[k].published_at # NULL}
    /\ queue = EmptyBag
    /\ dlq = {}
    /\ proj = [j \in Projectors |-> IdleProjector]
    /\ WORK_ORDER_TABLE = {}
    /\ PROCESSED_EVENTS_TABLE = {}
    /\ api = IdleApi

SelectNext == PublisherNext(LivePublishers)

SelectSpec == SelectInit /\ [][SelectNext]_vars

\* createWorkOrder statement by statement, next to a publisher that reads the
\* outbox.
ApiNext ==
    \/ Begin
    \/ \E orgId \in Orgs : InsertWorkOrderOk(orgId)
    \/ InsertOutboxOk
    \/ StatementFail
    \/ CommitOk
    \/ CommitLost
    \/ Rollback

ApiSpecNext == Tick \/ ApiNext \/ PublisherNext(LivePublishers)

ApiSpec == Init /\ [][ApiSpecNext]_vars

\* The write side and one publisher whose invocations may run into the
\* function timeout.
CutoffNext ==
    \/ Tick
    \/ \E orgId \in Orgs : createWorkOrder(orgId)
    \/ PublisherNext(LivePublishers)
    \/ \E p \in LivePublishers : Timeout(p)
    \/ \E p \in LivePublishers : Discard(p)

CutoffSpec == Init /\ [][CutoffNext]_vars

\* The projector at instants just before a second and just before a day of
\* the clock is over, and one millisecond later.
TtlInstants == {999, 86399999}

TtlInit == \E t \in TtlInstants : ProjInitAt(t)

\* One millisecond passes.
TtlTick ==
    /\ now \in TtlInstants
    /\ now' = now + 1
    /\ UNCHANGED <<api, work_orders, outbox, pub, snsSent, queue, dlq, proj,
                   WORK_ORDER_TABLE, PROCESSED_EVENTS_TABLE>>

TtlNext == TtlTick \/ ProjectorNext(LiveProjectors)

TtlSpec == TtlInit /\ [][TtlNext]_vars

\* ================================================================ claims
\* ---------------------------------------------------------------- C3
\* C3: for every ChangeRecord, publishedAt goes from null to non-null at most
\* once and is never reset to null afterwards, overlapping publisher
\* invocations included: no step takes a published row back to NULL.
C3_PublishedAtNeverReset ==
    [][\A k \in DOMAIN outbox :
          outbox[k].published_at # NULL => outbox'[k].published_at # NULL]_vars

\* Two overlapping invocations hold the same row; one has marked it, the
\* other is about to run its UPDATE on it.
C3_Witness ==
    \E p \in Publishers :
       /\ pub[p].pc = "mark"
       /\ outbox[pub[p].rows[pub[p].i].id].published_at # NULL

\* ---------------------------------------------------------------- C4
\* C4: a row's publishedAt is non-null only if a bus send of that row's
\* envelope completed successfully before.
C4_PublishedOnlyAfterSend ==
    \A k \in DOMAIN outbox : outbox[k].published_at # NULL => k \in snsSent

\* A row is published while the send of another row of the ledger failed.
C4_Witness ==
    \E k \in DOMAIN outbox :
       /\ outbox[k].published_at # NULL
       /\ \E p \in Publishers : \E a \in 1 .. Len(pub[p].log) :
             pub[p].log[a] = "sendFailed"

\* ---------------------------------------------------------------- C5
\* The rows of invocation p's batch whose send resolved.
SendSucceeded(p) ==
    {a \in 1 .. Len(pub[p].log) : pub[p].log[a] # "sendFailed"}

\* C5 as stated: when an invocation leaves its loop and the send of one row of
\* its batch failed, every other row of the batch whose send succeeded has
\* publishedAt set.
C5_AsStated ==
    \A p \in Publishers :
       (pub[p].pc = "return" /\ SendSucceeded(p) # 1 .. Len(pub[p].log)) =>
          \A a \in SendSucceeded(p) :
             outbox[pub[p].rows[a].id].published_at # NULL

\* C5 amended: a failed row never aborts the batch. When an invocation leaves
\* its loop every row of its batch was attempted, and every row whose send
\* and markPublished both succeeded has publishedAt set, whatever happened to
\* the other rows.
C5_BatchIsolation ==
    \A p \in Publishers :
       pub[p].pc = "return" =>
          /\ Len(pub[p].log) = Len(pub[p].rows)
          /\ \A a \in 1 .. Len(pub[p].log) :
                pub[p].log[a] = "published" =>
                   outbox[pub[p].rows[a].id].published_at # NULL

\* An invocation finished a batch in which the first row's send failed and a
\* later row was sent and marked.
C5_Witness ==
    \E p \in Publishers :
       /\ pub[p].pc = "return"
       /\ Len(pub[p].log) >= 2
       /\ pub[p].log[1] = "sendFailed"
       /\ \E a \in 2 .. Len(pub[p].log) : pub[p].log[a] = "published"

\* ---------------------------------------------------------------- C1
\* The envelope the publisher sends for outbox row e.
EnvelopeOf(e) == eventEnvelope(outbox[e])

\* The Projection rows written from envelope e, and its DedupeRecords.
RowsOf(e) == {r \in WORK_ORDER_TABLE : r.sourceEventId = e}
DedupesOf(e) == {x \in PROCESSED_EVENTS_TABLE : x.eventId = e}

\* C1 as stated: however often an envelope is delivered again, the Projection
\* row its first application left stays identical in every attribute.
C1_AsStated ==
    [][\A r \in WORK_ORDER_TABLE : r \in WORK_ORDER_TABLE']_vars

\* C1 amended: after any number of deliveries of an envelope (redeliveries
\* after a failed dedupe write included) the store holds one row for it, at
\* the key and with the attributes a single application writes, projectedAt
\* excepted: projectedAt is the time of the application that wrote last.
C1_IdempotentButProjectedAt ==
    \A e \in DOMAIN outbox :
       /\ Cardinality(RowsOf(e)) <= 1
       /\ \A r \in RowsOf(e) :
             [r EXCEPT !.projectedAt = toISOString(0)] = dbItem(EnvelopeOf(e), 0)

\* A redelivered message (second receive or later) has been applied again at
\* time 1, its row is stored and its DedupeRecord is still to be written.
C1_Witness ==
    \E j \in Projectors :
       /\ proj[j].pc = "dedupe"
       /\ proj[j].records[proj[j].i].receiveCount >= 2
       /\ DedupesOf(Envelope(j).id) = {}
       /\ dbItem(Envelope(j), 1) \in WORK_ORDER_TABLE

\* ---------------------------------------------------------------- C7
\* No invocation is between its dedupe check and its dedupe write for e.
Quiescent(e) ==
    \A j \in Projectors :
       proj[j].pc \in {"put", "dedupe"} => Envelope(j).id # e

\* C7: once an envelope has been applied (its DedupeRecord is stored and no
\* other call is applying it), a further call for it finds the DedupeRecord
\* and returns at once: the call goes to the next record without issuing a
\* write, and the envelope keeps its one Projection row and one DedupeRecord
\* unchanged.
C7_SecondCallIsNoOp ==
    [][\A j \in Projectors :
          LET e == Envelope(j).id
          IN  (/\ proj[j].pc = "get"
               /\ DedupesOf(e) # {}
               /\ Quiescent(e)
               /\ proj'[j] # proj[j]
               /\ proj'[j].pc # "idle") =>
                  /\ proj'[j].pc \in {"get", "ack"}
                  /\ proj'[j].i = proj[j].i + 1
                  /\ WORK_ORDER_TABLE' = WORK_ORDER_TABLE
                  /\ PROCESSED_EVENTS_TABLE' = PROCESSED_EVENTS_TABLE
                  /\ Cardinality(RowsOf(e)) = 1
                  /\ Cardinality(DedupesOf(e)) = 1]_vars

\* A second copy of an applied envelope has been received and its dedupe
\* lookup is pending.
C7_Witness ==
    \E j \in Projectors :
       /\ proj[j].pc = "get"
       /\ DedupesOf(Envelope(j).id) # {}
       /\ Quiescent(Envelope(j).id)
       /\ RowsOf(Envelope(j).id) # {}

\* ---------------------------------------------------------------- C8
\* C8: when both racing applications of an envelope are over, the store holds
\* exactly one Projection row at the envelope's key and exactly one
\* DedupeRecord for its id, each being the item a single application writes.
C8_RaceLeavesSingleRows ==
    \A e \in DOMAIN outbox :
       (Quiescent(e) /\ DedupesOf(e) # {}) =>
          /\ \E t \in Times :
                {r \in WORK_ORDER_TABLE :
                    KeyOf(r, ProjectionKey) = KeyOf(dbItem(EnvelopeOf(e), 0), ProjectionKey)}
                   = {dbItem(EnvelopeOf(e), t)}
          /\ \E t \in Times : DedupesOf(e) = {processedEvent(EnvelopeOf(e), t)}
          /\ Cardinality(RowsOf(e)) = 1

\* Both applications are over and the store shows they raced: the row is the
\* one built at time 1 while the DedupeRecord was built at time 0, so the
\* application that checked at time 0 wrote its DedupeRecord after the other
\* one, which checked at time 1, had passed the check too.
C8_Witness ==
    \E e \in DOMAIN outbox :
       /\ Quiescent(e)
       /\ dbItem(EnvelopeOf(e), 1) \in WORK_ORDER_TABLE
       /\ processedEvent(EnvelopeOf(e), 0) \in PROCESSED_EVENTS_TABLE

\* ---------------------------------------------------------------- C9
\* C9: when processEvent has returned for an envelope whose type has no
\* projection rule, no Projection row was written from it and a DedupeRecord
\* for its id is stored.
C9_UnknownTypeStillDeduped ==
    \A j \in Projectors : \A a \in 1 .. Len(proj[j].records) :
       (a < proj[j].i /\ ~HasProjectionRule(proj[j].records[a].Message)) =>
          /\ RowsOf(proj[j].records[a].Message.id) = {}
          /\ DedupesOf(proj[j].records[a].Message.id) # {}

\* ---------------------------------------------------------------- C10
\* The number of copies of message m that are visible in the queue q.
Visible(q, m) == IF BagIn(m, q) THEN CopiesIn(m, q) ELSE 0

\* An invocation of j failed at the projection write or at the dedupe write.
WriteFailed(j) ==
    /\ proj[j].pc \in {"put", "dedupe"}
    /\ proj'[j].pc = "idle"

\* C10 as stated: when the projection write or the dedupe write fails, the
\* message is not deleted and becomes visible in the queue again.
C10_AsStated ==
    [][\A j \in Projectors :
          WriteFailed(j) =>
             LET m == proj[j].records[proj[j].i]
             IN  Visible(queue', m) > Visible(queue, m)]_vars

\* C10 amended: when the projection write or the dedupe write fails, the
\* message is not acknowledged: it becomes visible in the queue again, unless
\* it has been received maxReceiveCount times, and then it is moved to the
\* dead-letter queue instead.
C10_FailureRedeliversOrDeadLetters ==
    [][\A j \in Projectors :
          WriteFailed(j) =>
             LET m == proj[j].records[proj[j].i]
             IN  IF m.receiveCount < maxReceiveCount
                 THEN Visible(queue', m) > Visible(queue, m)
                 ELSE m \in dlq' /\ Visible(queue', m) = Visible(queue, m)]_vars

\* A dedupe write failed: the Projection row of a message is stored, its
\* DedupeRecord is not, no invocation is running and the message is back in
\* the queue after a receive.
C10_Witness ==
    \E m \in BagToSet(queue) :
       /\ m.receiveCount >= 1
       /\ RowsOf(m.Message.id) # {}
       /\ DedupesOf(m.Message.id) = {}
       /\ \A j \in Projectors : proj[j].pc = "idle"

\* ---------------------------------------------------------------- C2
\* Row e of the ledger is of a type the projector has a rule for.
Projectable(e) == e \in DOMAIN outbox /\ HasProjectionRule(EnvelopeOf(e))

\* A message of row e has been moved to the dead-letter queue.
InDeadLetterQueue(e) == \E m \in dlq : m.Message.id = e

\* C2 as stated: every ChangeRecord committed to the outbox is eventually
\* reflected as a row of the Projection Store, when publisher ticks recur,
\* the bus delivers and no call fails every time.
C2_AsStated ==
    \A e \in EventIds : (e \in DOMAIN outbox) ~> (RowsOf(e) # {})

\* C2 amended: every committed ChangeRecord whose type has a projection rule
\* eventually is reflected as a row of the Projection Store or has a message
\* in the dead-letter queue.
C2_EventuallyProjectedOrDeadLettered ==
    \A e \in EventIds :
       Projectable(e) ~> (RowsOf(e) # {} \/ InDeadLetterQueue(e))

\* A committed row has been sent and projected; the publisher has not
\* marked it yet.
C2_Witness ==
    \E e \in DOMAIN outbox :
       /\ outbox[e].published_at = NULL
       /\ RowsOf(e) # {}
       /\ DedupesOf(e) # {}

\* ---------------------------------------------------------------- C6
\* C6 as stated: for every ChangeRecord whose publishedAt becomes non-null
\* the Projection row eventually exists.
C6_AsStated ==
    \A e \in EventIds :
       (e \in DOMAIN outbox /\ outbox[e].published_at # NULL) ~> (RowsOf(e) # {})

\* C6 amended: for every ChangeRecord of a type with a projection rule whose
\* publishedAt becomes non-null, eventually the Projection row exists or a
\* message of the record is in the dead-letter queue.
C6_PublishedIsProjectedOrDeadLettered ==
    \A e \in EventIds :
       (Projectable(e) /\ outbox[e].published_at # NULL) ~>
          (RowsOf(e) # {} \/ InDeadLetterQueue(e))

\* A published row whose only message failed maxReceiveCount times: it has
\* no Projection row and its message is in the dead-letter queue.
C6_Witness ==
    \E e \in DOMAIN outbox :
       /\ outbox[e].published_at # NULL
       /\ RowsOf(e) = {}
       /\ InDeadLetterQueue(e)
       /\ BagCardinality(queue) = 0

\* ---------------------------------------------------------------- C11
\* C11: when the application of one message of a batch fails, only that
\* message's delivery fails: no other message of the batch is returned to the
\* queue or moved to the dead-letter queue by that failure.
C11_OnlyFailingMessageFails ==
    [][\A j \in Projectors :
          (proj[j].pc \in {"get", "put", "dedupe"} /\ proj'[j].pc = "idle") =>
             \A a \in 1 .. Len(proj[j].records) :
                LET m == proj[j].records[a]
                IN  m.Message.id # Envelope(j).id =>
                       /\ Visible(queue', m) = Visible(queue, m)
                       /\ (m \in dlq' => m \in dlq)]_vars

\* ---------------------------------------------------------------- C12
\* Invocation p has logged a failed markPublished update for row k (its send
\* had resolved).
MarkFailedFor(p, k) ==
    \E a \in 1 .. Len(pub[p].log) :
       pub[p].log[a] = "markFailed" /\ pub[p].rows[a].id = k

\* The ids of the rows LiveInit commits.
LiveEventIds == DOMAIN LedgerOf(<<"WorkOrderCreated">>)

\* Invocation p has just sent row k successfully.
JustSent(p, k) ==
    pub[p].pc = "mark" /\ pub[p].rows[pub[p].i].id = k

Settled ==
    /\ \A p \in Publishers : pub[p].pc = "idle"
    /\ \A j \in Projectors : proj[j].pc = "idle"
    /\ BagCardinality(queue) = 0

\* The Projection rows a single send of the ledger's rows can leave.
SingleSendRows ==
    {dbItem(EnvelopeOf(k), t) : k \in DOMAIN outbox, t \in Times}

\* C13: overlapping publisher invocations may send the same record twice;
\* the Projection Store then holds what a single send leaves (at most one
\* row and one DedupeRecord per record, each row one a single application
\* writes; once all messages are consumed the record is projected or
\* dead-lettered), and a record an invocation marked is published.
C13_DuplicateSendsAbsorbed ==
    /\ WORK_ORDER_TABLE \subseteq SingleSendRows
    /\ \A k \in DOMAIN outbox :
          /\ Cardinality(RowsOf(k)) <= 1
          /\ Cardinality(DedupesOf(k)) <= 1
          /\ (Settled /\ k \in snsSent) => (RowsOf(k) # {} \/ InDeadLetterQueue(k))
    /\ \A p \in Publishers : \A a \in 1 .. Len(pub[p].log) :
          pub[p].log[a] = "published" =>
             outbox[pub[p].rows[a].id].published_at # NULL

\* Both invocations selected the same record and each has sent it: the first
\* message has been applied, the duplicate waits in the queue.
C13_Witness ==
    \E k \in DOMAIN outbox :
       /\ \A p \in Publishers : JustSent(p, k)
       /\ RowsOf(k) # {}
       /\ DedupesOf(k) # {}
       /\ BagIn(SqsMessage(EnvelopeOf(k)), queue)

\* ---------------------------------------------------------------- C14
\* The unsendable rows that precede row k in occurred_at order.
UnsendableBefore(k) ==
    {u \in Unsendable : Before(outbox[u], outbox[k])}

\* A publisher invocation ends having attempted the send of every
\* permanently failing record that has fewer than BatchLimit such records
\* before it.
Retried ==
    \E p \in LivePublishers :
       /\ pub[p].pc = "return"
       /\ \A k \in Unsendable :
             Cardinality(UnsendableBefore(k)) < BatchLimit =>
                \E a \in 1 .. Len(pub[p].log) :
                   pub[p].rows[a].id = k /\ pub[p].log[a] = "sendFailed"

\* Row k is in the ledger and marked published.
Published(k) == k \in DOMAIN outbox /\ outbox[k].published_at # NULL

\* C14 as stated: every record whose send can succeed is eventually
\* published, however many permanently failing records precede it.
C14_AsStated ==
    <>(\A k \in DOMAIN outbox : k \notin Unsendable => Published(k))

\* C14 amended: every record whose send can succeed is eventually published
\* when fewer than BatchLimit permanently failing records precede it; and a
\* permanently failing record with fewer than BatchLimit such records before
\* it is attempted again by invocation after invocation.
C14_NoBlockingBelowBatchLimit ==
    /\ <>(\A k \in DOMAIN outbox :
             (k \notin Unsendable /\ Cardinality(UnsendableBefore(k)) < BatchLimit)
                => Published(k))
    /\ []<>Retried

\* The newest record has been published behind BatchLimit - 1 records whose
\* send failed in the same batch.
C14_Witness ==
    \E p \in LivePublishers :
       /\ pub[p].pc = "return"
       /\ Len(pub[p].log) = BatchLimit
       /\ \A a \in 1 .. BatchLimit - 1 : pub[p].log[a] = "sendFailed"
       /\ pub[p].log[BatchLimit] = "published"
       /\ outbox[BatchLimit].published_at # NULL

\* ---------------------------------------------------------------- C15
\* C15: a publisher invocation never raises because of a per-record failure:
\* no step of the loop (a send or an UPDATE, resolved or rejected) takes the
\* invocation anywhere but to the next record or to the normal return, and
\* the invocation reaches the return with one outcome per record of the
\* batch and a result to return, whatever subset of the calls failed.
C15_NeverRaisesForRecordFailure ==
    [][\A p \in Publishers :
          pub[p].pc \in {"send", "mark"} =>
             /\ pub'[p].pc \in {"send", "mark", "return"}
             /\ pub'[p].rows = pub[p].rows
             /\ pub'[p].pc = "return" =>
                   /\ Len(pub'[p].log) = Len(pub'[p].rows)
                   /\ Result(p)'.statusCode = 200]_vars

\* An invocation is about to return normally although the send of its first
\* record and the UPDATE of its second were rejected.
C15_Witness ==
    \E p \in Publishers :
       /\ pub[p].pc = "return"
       /\ pub[p].log = <<"sendFailed", "markFailed">>

\* ---------------------------------------------------------------- C16
\* C16: when connecting to the ledger or the batch select fails, the
\* invocation fails with the propagated error (it is in "raise" and ends
\* from there), it has no batch and no record outcome, and none of its steps
\* sends to the bus or updates published_at.
C16_LedgerUnreachableIsFatal ==
    [][\A p \in Publishers :
          /\ (pub'[p].log # <<>> /\ pub'[p].log[1] \in {"connectFailed", "selectFailed"})
                => (pub'[p].pc = "raise" /\ pub'[p].rows = <<>>
                    /\ Len(pub'[p].log) = 1)
          /\ (pub'[p] # pub[p] /\ "raise" \in {pub[p].pc, pub'[p].pc})
                => /\ UNCHANGED <<outbox, snsSent, queue>>
                   /\ pub'[p].pc \in {"raise", "idle"}]_vars

\* One invocation failed to connect and another failed its batch select
\* while a record was waiting to be published.
C16_Witness ==
    /\ Unpublished # {}
    /\ \E p, q \in Publishers :
          /\ pub[p].pc = "raise" /\ pub[p].log = <<"connectFailed">>
          /\ pub[q].pc = "raise" /\ pub[q].log = <<"selectFailed">>

\* ---------------------------------------------------------------- C17
\* The number of records of the batch whose send and UPDATE both succeeded.
publishedCount(p) ==
    Cardinality({a \in 1 .. Len(pub[p].log) : pub[p].log[a] = "published"})

\* The ids of the records of the batch for which either step failed.
failedIds(p) ==
    {pub[p].rows[a].id : a \in {b \in 1 .. Len(pub[p].log) : pub[p].log[b] # "published"}}

\* C17: the result an invocation returns reports publishedCount, the number
\* of batch records whose send and markPublished both succeeded, and
\* failedIds, the ids of the batch records for which either step failed.
C17_ResultReportsOutcome ==
    \A p \in Publishers :
       pub[p].pc = "return" =>
          /\ DOMAIN Result(p) = {"publishedCount", "failedIds"}
          /\ Result(p).publishedCount = publishedCount(p)
          /\ Result(p).failedIds = failedIds(p)

\* ---------------------------------------------------------------- C18
\* C18: the batch an invocation works on holds exactly min(10, number of
\* unpublished records) records, each unpublished at select time and as the
\* ledger holds it, no record twice, in ascending occurredAt order, and no
\* unpublished record left out of it has a smaller occurredAt than one that
\* is in it; the invocation ends without a batch only when nothing is
\* unpublished.
C18_BatchIsOldestUnpublished ==
    [][\A p \in Publishers :
          /\ (pub[p].pc = "select" /\ pub'[p].pc \notin {"select", "raise"}) =>
               LET rows == pub'[p].rows
                   n == Cardinality(Unpublished)
               IN  /\ Len(rows) = IF n < 10 THEN n ELSE 10
                   /\ pub'[p].pc = "empty" <=> n = 0
                   /\ \A a \in 1 .. Len(rows) :
                         /\ rows[a].id \in Unpublished
                         /\ rows[a] = outbox[rows[a].id]
                         /\ rows[a].published_at = NULL
                   /\ \A a, b \in 1 .. Len(rows) :
                         a < b => /\ rows[a].id # rows[b].id
                                  /\ rows[a].occurred_at <= rows[b].occurred_at
                   /\ \A k \in Unpublished :
                         (\A a \in 1 .. Len(rows) : rows[a].id # k) =>
                            \A a \in 1 .. Len(rows) :
                               rows[a].occurred_at <= outbox[k].occurred_at
          /\ pub[p].pc \in {"send", "mark"} => pub'[p].rows = pub[p].rows]_vars

\* An invocation holds a full batch taken from BatchLimit + 1 unpublished
\* records: the record left out is the first one, written later than the
\* others, and the batch runs from the second record to the last.
C18_Witness ==
    \E p \in Publishers :
       /\ pub[p].pc = "send" /\ pub[p].i = 1
       /\ Len(pub[p].rows) = BatchLimit
       /\ Cardinality(Unpublished) = BatchLimit + 1
       /\ outbox[1].occurred_at > outbox[2].occurred_at
       /\ pub[p].rows[1].id = 2
       /\ pub[p].rows[BatchLimit].id = BatchLimit + 1

\* ---------------------------------------------------------------- C19
\* C19: a message is delivered to the projector at most maxReceiveCount (3)
\* times: no invocation holds a message received more often, and a message
\* that is visible in the queue has been received fewer than 3 times. When
\* an invocation fails that holds a message on its third delivery, the
\* message is moved to the dead-letter queue and is not visible in the queue
\* again; a dead-lettered message stays dead-lettered.
C19_DeadLetteredAfterThreeDeliveries ==
    [][/\ \A j \in Projectors : \A a \in 1 .. Len(proj'[j].records) :
             proj'[j].records[a].receiveCount <= maxReceiveCount
       /\ \A m \in BagToSet(queue') : m.receiveCount < maxReceiveCount
       /\ \A m \in dlq' : m.receiveCount = maxReceiveCount
       /\ dlq \subseteq dlq'
       /\ \A j \in Projectors :
             (proj[j].pc \in {"get", "put", "dedupe"} /\ proj'[j].pc = "idle") =>
                \A a \in 1 .. Len(proj[j].records) :
                   LET m == proj[j].records[a]
                   IN  IF m.receiveCount = maxReceiveCount
                       THEN m \in dlq' /\ Visible(queue', m) = 0
                       ELSE m \notin dlq' \ dlq /\ Visible(queue', m) > Visible(queue, m)]_vars

\* The application of a message failed on each of its three deliveries: the
\* message is in the dead-letter queue, nothing of it is stored, no copy of
\* it is queued or held.
C19_Witness ==
    \E m \in dlq :
       /\ m.receiveCount = maxReceiveCount
       /\ RowsOf(m.Message.id) = {}
       /\ DedupesOf(m.Message.id) = {}
       /\ \A q \in BagToSet(queue) : q.Message.id # m.Message.id
       /\ \A j \in Projectors : proj[j].pc = "idle"

\* ---------------------------------------------------------------- C20
\* C20: in every reachable state, an event id that has a DedupeRecord has
\* its Projection row in the Projection Store (the projection write of the
\* event completed before the DedupeRecord was written), and no invocation
\* that has not yet made the projection write of an event holds or has stored
\* its DedupeRecord.
C20_DedupeImpliesProjected ==
    /\ \A d \in PROCESSED_EVENTS_TABLE : RowsOf(d.eventId) # {}
    /\ \A j \in Projectors :
          proj[j].pc = "dedupe" =>
             /\ proj[j].item = processedEvent(Envelope(j), ParseDate(proj[j].item.processedAt))
             /\ RowsOf(Envelope(j).id) # {}

\* A DedupeRecord is stored for an event whose Projection row is stored,
\* while a second copy of the message is being applied by another invocation
\* that has not made its projection write yet.
C20_Witness ==
    \E d \in PROCESSED_EVENTS_TABLE :
       /\ RowsOf(d.eventId) # {}
       /\ \E j \in Projectors :
             proj[j].pc = "put" /\ Envelope(j).id = d.eventId

\* ---------------------------------------------------------------- C21
\* An invocation holds a message of event e (received, not yet deleted).
HeldBy(j, e) ==
    \E a \in 1 .. Len(proj[j].records) : proj[j].records[a].Message.id = e

\* An invocation is between the projection write and the dedupe write of e.
MidApply(e) ==
    \E j \in Projectors :
       /\ proj[j].pc = "dedupe"
       /\ Envelope(j).id = e

\* A message of event e is visible in the queue.
Queued(e) == \E m \in BagToSet(queue) : m.Message.id = e

\* C21 as stated: an event id without a DedupeRecord has no effect in the
\* Projection Store, also after a failed or interrupted application (an
\* application that is still between its two writes set aside).
C21_AsStated ==
    \A e \in DOMAIN outbox :
       (DedupesOf(e) = {} /\ ~MidApply(e)) => RowsOf(e) = {}

\* C21 amended: an event id without a DedupeRecord has no effect in the
\* Projection Store, unless an application of it made the projection write
\* and its dedupe write has not completed; the event's message is then held
\* by an invocation, visible in the queue for redelivery, or in the
\* dead-letter queue.
C21_NoDedupeMeansUnappliedOrPending ==
    \A e \in DOMAIN outbox :
       (DedupesOf(e) = {} /\ RowsOf(e) # {}) =>
          \/ \E j \in Projectors : HeldBy(j, e)
          \/ Queued(e)
          \/ InDeadLetterQueue(e)

\* The dedupe write of an event failed on its last delivery: its row is
\* stored, it has no DedupeRecord, nothing is running and its message is in
\* the dead-letter queue.
C21_Witness ==
    \E e \in DOMAIN outbox :
       /\ RowsOf(e) # {}
       /\ DedupesOf(e) = {}
       /\ InDeadLetterQueue(e)
       /\ ~Queued(e)
       /\ \A j \in Projectors : proj[j].pc = "idle"

\* ---------------------------------------------------------------- C22
\* The materializer has applied event e: its message was sent, no copy of it
\* is queued, held by an invocation or dead-lettered.
Applied(e) ==
    /\ e \in snsSent
    /\ ~Queued(e)
    /\ ~InDeadLetterQueue(e)
    /\ \A j \in Projectors : ~HeldBy(j, e)

\* The status embedded in the sort key of a Projection row.
StatusInKey(r) == r.sk[2]

\* C22: after the materializer applied an event that changes an entity's
\* status, the Projection Store holds the entity's row at the key embedding
\* the new status and no row of the entity at a key embedding another status.
C22_StatusChangeMovesRow ==
    \A e \in DOMAIN outbox :
       (outbox[e].event_type = "WorkOrderStatusChanged" /\ Applied(e)) =>
          LET data == outbox[e].payload
          IN  /\ \E r \in WORK_ORDER_TABLE :
                    r.workOrderId = data.id /\ StatusInKey(r) = data.status
              /\ \A r \in WORK_ORDER_TABLE :
                    r.workOrderId = data.id => StatusInKey(r) = data.status

\* ---------------------------------------------------------------- C23
\* The key the claim gives for the row of a WorkOrderCreated envelope: the
\* timestamp is the work order's created_at as an ISO string.
KeyFor(envelope) ==
    [pk |-> <<"ORG#", envelope.data.org_id>>,
     sk |-> <<"STATUS#", envelope.data.status, "#TS#",
              toISOString(ParseDate(envelope.data.created_at)),
              "#WO#", envelope.data.id>>]

\* The rows the materializer has written or is about to write.
WrittenOrPending ==
    WORK_ORDER_TABLE \cup
    {proj[j].item : j \in {i \in Projectors : proj[i].pc = "put"}}

\* C23: every row the materializer writes for a WorkOrderCreated envelope
\* has pk = "ORG#<org_id>" and sk = "STATUS#<status>#TS#<timestamp>#WO#<id>",
\* all taken from the envelope: whenever and however often the envelope is
\* applied, its rows have the same key.
C23_KeyFromEnvelopeOnly ==
    /\ \A r \in WrittenOrPending :
          /\ r.sourceEventType = "WorkOrderCreated"
          /\ KeyOf(r, ProjectionKey) = KeyFor(EnvelopeOf(r.sourceEventId))
    /\ \A r1, r2 \in WrittenOrPending :
          r1.sourceEventId = r2.sourceEventId =>
             KeyOf(r1, ProjectionKey) = KeyOf(r2, ProjectionKey)

\* The row of an envelope is stored, and a second application of the same
\* envelope at a later time is about to write its row: the two rows differ
\* (in projectedAt) and have the same key.
C23_Witness ==
    \E r \in WORK_ORDER_TABLE : \E j \in Projectors :
       /\ proj[j].pc = "put"
       /\ proj[j].item.sourceEventId = r.sourceEventId
       /\ proj[j].item # r
       /\ KeyOf(proj[j].item, ProjectionKey) = KeyOf(r, ProjectionKey)

\* ---------------------------------------------------------------- C24
\* The statuses a work order goes through.
Statuses == {"OPEN", "CLOSED"}

\* C24: a query for the entities of an owner in a status returns exactly the
\* rows of that owner whose status matches (with E1 OPEN and E2 CLOSED under
\* one owner, the query for OPEN returns exactly E1). The read side has one
\* query, workOrdersForOrg, which takes the owner and no status.
C24_StatusQueryReturnsMatching ==
    \A orgId \in Orgs : \A status \in Statuses :
       workOrdersForOrg(orgId) =
          {WorkOrderOf(r) : r \in {x \in WORK_ORDER_TABLE :
                                      x.orgId = orgId /\ x.status = status}}

\* ---------------------------------------------------------------- C25
\* Invocation p is cut off in this step.
CutOff(p) ==
    /\ pub[p].pc \in {"select", "empty", "send", "mark", "return"}
    /\ pub'[p].pc = "timeout"

\* C25: when a publisher invocation is cut off mid-batch, every record it
\* marked published stays published and every other record of the batch is
\* left as it was (unpublished, unless the UPDATE that was being awaited for
\* the current record had reached the ledger); the records of the batch that
\* are unpublished are what the next batch select returns; and no record is
\* marked published without having been sent.
C25_CutOffLeavesResumableState ==
    [][/\ \A p \in LivePublishers :
             CutOff(p) =>
                /\ \A a \in 1 .. Len(pub[p].rows) :
                      LET k == pub[p].rows[a].id
                      IN  /\ (a <= Len(pub[p].log) /\ pub[p].log[a] = "published")
                                => outbox'[k].published_at # NULL
                          /\ (a # pub[p].i \/ pub[p].pc # "mark")
                                => outbox'[k] = outbox[k]
                          /\ outbox'[k].published_at = NULL
                                => \E rows \in SelectUnpublished' :
                                      \E b \in 1 .. Len(rows) : rows[b].id = k
                /\ pub'[p].rows = pub[p].rows
       /\ \A k \in DOMAIN outbox' :
             outbox'[k].published_at # NULL => k \in snsSent']_vars

\* An invocation was cut off after it had sent and marked the first record
\* of its batch and sent the second: the first is published, the second is
\* sent and still unpublished.
C25_Witness ==
    \E p \in LivePublishers :
       /\ pub[p].pc = "timeout"
       /\ Len(pub[p].rows) = 2
       /\ pub[p].log = <<"published">>
       /\ outbox[pub[p].rows[1].id].published_at # NULL
       /\ outbox[pub[p].rows[2].id].published_at = NULL
       /\ pub[p].rows[2].id \in snsSent

\* ---------------------------------------------------------------- C26
\* Every message that was sent has been applied: nothing is queued, held by
\* an invocation or dead-lettered.
AllApplied ==
    /\ Settled
    /\ dlq = {}

\* The records that have a projection rule.
Projected == {e \in DOMAIN outbox : HasProjectionRule(EnvelopeOf(e))}

\* C26: once the envelopes of a set of distinct change records have all been
\* applied, the Projection Store holds, for each record with a projection
\* rule, the one row an application of its envelope alone writes, and
\* nothing else: the contents are the same whatever the order in which the
\* bus delivered the envelopes.
C26_DeliveryOrderIrrelevant ==
    AllApplied =>
       /\ \A e \in Projected :
             \E t \in Times : RowsOf(e) = {dbItem(EnvelopeOf(e), t)}
       /\ WORK_ORDER_TABLE = UNION {RowsOf(e) : e \in Projected}
       /\ Cardinality(WORK_ORDER_TABLE) = Cardinality(Projected)

\* Two records have been applied in the opposite order of their commit: the
\* row of the second was written before the row of the first.
C26_Witness ==
    /\ AllApplied
    /\ Cardinality(Projected) = 2
    /\ \E r1 \in RowsOf(1) : \E r2 \in RowsOf(2) :
          ParseDate(r2.projectedAt) < ParseDate(r1.projectedAt)

\* ---------------------------------------------------------------- C27
\* The work orders that exist, and those that have a WorkOrderCreated row in
\* the outbox.
WorkOrderIds == {wo.id : wo \in work_orders}

CreatedInOutbox ==
    {outbox[k].aggregate_id :
        k \in {x \in DOMAIN outbox : outbox[x].event_type = "WorkOrderCreated"}}

\* C27: whatever the outcome of createWorkOrder (commit, failure of either
\* insert, rollback), a work order exists if and only if its
\* WorkOrderCreated outbox row exists, and it has one such row.
C27_WorkOrderIffOutboxRow ==
    /\ WorkOrderIds = CreatedInOutbox
    /\ \A wo \in work_orders :
          Cardinality({k \in DOMAIN outbox :
                          /\ outbox[k].event_type = "WorkOrderCreated"
                          /\ outbox[k].aggregate_id = wo.id
                          /\ outbox[k].payload = PayloadOf(wo)}) = 1

\* After one work order was committed, a second createWorkOrder inserted its
\* work order, failed at the outbox insert and is rolling back: the second
\* work order does not exist.
C27_Witness ==
    /\ api.pc = "rollback"
    /\ api.createdWorkOrder # NoRow
    /\ api.outboxRow = NoRow
    /\ api.createdWorkOrder.id \notin WorkOrderIds
    /\ Cardinality(work_orders) = 1

\* ---------------------------------------------------------------- C28
\* The fields of a ChangeRecord the envelope is said to carry (published_at
\* is the record's mutable state and is not one of them).
EnvelopeFields ==
    {"id", "event_type", "version", "occurred_at", "aggregate_id",
     "aggregate_type", "payload", "trace_id"}

\* A ChangeRecord read back from an envelope.
RecordOf(envelope) ==
    [id |-> envelope.id,
     event_type |-> envelope.type,
     version |-> envelope.version,
     occurred_at |-> ParseDate(envelope.occurredAt),
     aggregate_id |-> envelope.aggregateId,
     aggregate_type |-> envelope.aggregateType,
     payload |-> envelope.data,
     trace_id |-> envelope.traceId]

\* The envelopes the publisher has built: those of the messages in the queue.
SentEnvelopes == {m.Message : m \in BagToSet(queue)}

\* C28: the envelope the publisher builds for a ChangeRecord carries id,
\* type, version, occurredAt, aggregateId, aggregateType, data and traceId of
\* the record: every one of these fields is recovered from the envelope, and
\* two different ChangeRecords never give the same envelope.
C28_EnvelopeIsLossless ==
    /\ \A envelope \in SentEnvelopes :
          /\ envelope.id \in DOMAIN outbox
          /\ RecordOf(envelope) = KeyOf(outbox[envelope.id], EnvelopeFields)
          /\ DOMAIN envelope = {"id", "type", "version", "occurredAt", "aggregateId",
                                "aggregateType", "data", "traceId"}
    /\ \A k1, k2 \in DOMAIN outbox :
          k1 # k2 => eventEnvelope(outbox[k1]) # eventEnvelope(outbox[k2])

\* The envelopes of two records written at different times are in the queue.
C28_Witness ==
    \E e1, e2 \in SentEnvelopes :
       /\ e1.id # e2.id
       /\ e1.occurredAt # e2.occurredAt
       /\ e1.traceId # e2.traceId

\* ---------------------------------------------------------------- C29
\* The DedupeRecords the materializer has written or is about to write.
DedupeRecords ==
    PROCESSED_EVENTS_TABLE \cup
    {proj[j].item : j \in {i \in Projectors : proj[i].pc = "dedupe"}}

InLoop(p) == pub[p].pc \in {"send", "mark"}

\* C30: an invocation handles the records of its batch one at a time, in
\* ascending occurredAt order: while a record is being sent or marked every
\* record before it has its outcome (its send, and its markPublished when
\* the send succeeded, have finished) and no record after it has been
\* touched; the loop goes from a record to the next one only, and only with
\* the outcome of the current one; a send that resolves is the send of the
\* current record, and the UPDATE is attempted only after it.
C30_OneRecordAtATime ==
    [][\A p \in LivePublishers :
          /\ InLoop(p)' =>
                /\ Len(pub'[p].log) = pub'[p].i - 1
                /\ pub'[p].i \in 1 .. Len(pub'[p].rows)
                /\ \A a, b \in 1 .. Len(pub'[p].rows) :
                      a < b => pub'[p].rows[a].occurred_at <= pub'[p].rows[b].occurred_at
                /\ pub'[p].pc = "mark" => pub'[p].rows[pub'[p].i].id \in snsSent'
          /\ (InLoop(p) /\ pub'[p].i # pub[p].i) =>
                /\ pub'[p].i = pub[p].i + 1
                /\ Len(pub'[p].log) = pub[p].i
                /\ pub'[p].pc \in {"send", "return"}
          /\ (InLoop(p) /\ pub'[p].i = pub[p].i) =>
                /\ pub[p].pc = "send" /\ pub'[p].pc = "mark"
                /\ queue' = queue (+) SetToBag({SqsMessage(eventEnvelope(pub[p].rows[pub[p].i]))})
          /\ InLoop(p) =>
                \A a \in 1 .. Len(pub[p].rows) :
                   a # pub[p].i => outbox'[pub[p].rows[a].id] = outbox[pub[p].rows[a].id]]_vars

\* The second record of a batch is being sent after the first one was sent
\* and marked; the first is the older one although its id is the larger.
C30_Witness ==
    \E p \in LivePublishers :
       /\ pub[p].pc = "send" /\ pub[p].i = 2
       /\ pub[p].log = <<"published">>
       /\ pub[p].rows[1].occurred_at < pub[p].rows[2].occurred_at
       /\ pub[p].rows[1].id > pub[p].rows[2].id

\* ---------------------------------------------------------------- C31
\* The ids of the rows invocation p selected.
BatchIds(p) == {pub[p].rows[a].id : a \in 1 .. Len(pub[p].rows)}

\* The ids of the rows a step sends to the bus.
SentInStep ==
    {e \in EventIds : \E m \in BagToSet(queue') :
        m.Message.id = e /\ Visible(queue', m) > Visible(queue, m)}

\* C31: a record whose publishedAt was set before an invocation runs its
\* select is neither selected nor sent by that invocation: the batch a select
\* returns holds no published record, the batch stays what the select
\* returned until the invocation ends, and every send of the invocation is of
\* a record of its batch.
C31_PublishedRecordNotPublishedAgain ==
    [][/\ \A p \in Publishers :
             /\ (pub[p].pc = "select" /\ pub'[p].pc # "select") =>
                   \A k \in DOMAIN outbox :
                      outbox[k].published_at # NULL => k \notin BatchIds(p)'
             /\ pub[p].pc \in {"send", "mark"} => pub'[p].rows = pub[p].rows
       /\ \A e \in SentInStep :
             \E p \in Publishers :
                /\ pub[p].pc = "send" /\ pub'[p].pc = "mark"
                /\ pub[p].rows[pub[p].i].id = e]_vars

\* An invocation that ran its select after record 1 was marked published is
\* sending record 2 alone.
C31_Witness ==
    \E p \in Publishers :
       /\ pub[p].pc = "mark"
       /\ Len(outbox) = 2
       /\ outbox[1].published_at # NULL
       /\ BatchIds(p) = {2}
       /\ \A q \in Publishers \ {p} : pub[q].pc = "idle"

\* ---------------------------------------------------------------- C32
\* Invocation p is running the UPDATE of row k.
Marking(p, k) ==
    pub[p].pc = "mark" /\ pub[p].rows[pub[p].i].id = k

\* C32: every outbox row createWorkOrder inserts starts with published_at =
\* NULL, and stays visible to the publisher's unpublished query until a
\* publisher marks it: a row that appears in the outbox is unpublished, an
\* unpublished row is matched by the query (and is in its batch when no more
\* than the batch limit are unpublished), and it stops being unpublished only
\* in the step in which a publisher's UPDATE of that row takes effect.
C32_InsertedRowVisibleUntilMarked ==
    [][/\ \A k \in DOMAIN outbox' \ DOMAIN outbox :
             /\ outbox'[k].published_at = NULL
             /\ outbox'[k] = api.outboxRow
       /\ \A k \in DOMAIN outbox :
             outbox[k].published_at = NULL =>
                /\ k \in Unpublished
                /\ Cardinality(Unpublished) <= BatchLimit =>
                      \A rows \in SelectUnpublished :
                         \E a \in 1 .. Len(rows) : rows[a].id = k
                /\ outbox'[k].published_at # NULL =>
                      \E p \in LivePublishers :
                         Marking(p, k) /\ pub'[p].log = Append(pub[p].log, "published")]_vars

\* A committed row is still unpublished after an invocation sent it and
\* failed to mark it.
C32_Witness ==
    \E p \in LivePublishers : \E k \in DOMAIN outbox :
       /\ outbox[k].published_at = NULL
       /\ pub[p].pc = "return"
       /\ pub[p].rows[1].id = k
       /\ pub[p].log[1] = "markFailed"

\* ---------------------------------------------------------------- C33
\* C33: every outbox event written by createWorkOrder has event_type
\* 'WorkOrderCreated', aggregate_type 'WorkOrder' and aggregate_id equal to
\* the id of the work order created in the same transaction (the work order
\* its payload is the image of).
C33_CreatedEventIdentifiesWorkOrder ==
    \A k \in DOMAIN outbox :
       /\ outbox[k].event_type = "WorkOrderCreated"
       /\ outbox[k].aggregate_type = "WorkOrder"
       /\ \E wo \in work_orders :
             /\ outbox[k].aggregate_id = wo.id
             /\ outbox[k].payload = PayloadOf(wo)

\* ---------------------------------------------------------------- C34
\* C34: once a record's publishedAt is non-null its value never changes
\* again, also when two overlapping invocations selected the record while it
\* was unpublished and both reach the markPublished update.
C34_PublishedAtSetOnce ==
    [][\A k \in DOMAIN outbox :
          outbox[k].published_at # NULL =>
             outbox'[k].published_at = outbox[k].published_at]_vars

\* ---------------------------------------------------------------- C35
\* C35: the projectedAt of the row at a given projection key never
\* decreases, in any interleaving of duplicate deliveries of one envelope to
\* concurrent projector invocations.
C35_ProjectedAtNeverDecreases ==
    [][\A r \in WORK_ORDER_TABLE : \A x \in WORK_ORDER_TABLE' :
          KeyOf(x, ProjectionKey) = KeyOf(r, ProjectionKey) =>
             ParseDate(x.projectedAt) >= ParseDate(r.projectedAt)]_vars

\* ---------------------------------------------------------------- C36
\* Invocation j ends in this step with the error of its current record.
Fails(j) ==
    proj[j].pc \in {"get", "put", "dedupe"} /\ proj'[j].pc = "idle"

\* C36: a projector invocation applies the records of its batch in batch
\* order: it starts at the first record, every write it makes is for its
\* current record, and it moves from a record to the next one only. When a
\* record fails the invocation ends there: it writes nothing for a later
\* record, and the Projection and dedupe rows written for the earlier
\* records stay as they are.
C36_BatchInOrderStopsAtFailure ==
    [][\A j \in Projectors :
          proj'[j] # proj[j] =>
             /\ proj[j].pc = "idle" => proj'[j].i = 1 /\ proj'[j].pc = "get"
             /\ (proj[j].pc # "idle" /\ proj'[j].pc # "idle") =>
                   /\ proj'[j].records = proj[j].records
                   /\ proj'[j].i \in {proj[j].i, proj[j].i + 1}
                   /\ proj'[j].pc # "ack" => proj'[j].i <= Len(proj[j].records)
                   /\ \A x \in WORK_ORDER_TABLE' \ WORK_ORDER_TABLE :
                         x.sourceEventId = Envelope(j).id
                   /\ \A d \in PROCESSED_EVENTS_TABLE' \ PROCESSED_EVENTS_TABLE :
                         d.eventId = Envelope(j).id
             /\ Fails(j) =>
                   /\ WORK_ORDER_TABLE' = WORK_ORDER_TABLE
                   /\ PROCESSED_EVENTS_TABLE' = PROCESSED_EVENTS_TABLE
                   /\ proj'[j] = IdleProjector]_vars

\* An invocation over a batch of two records has failed at the second one:
\* both messages are back in the queue, the first record's Projection row and
\* DedupeRecord are stored and nothing is stored for the second.
C36_Witness ==
    /\ \A j \in Projectors : proj[j].pc = "idle"
    /\ Len(outbox) = 2
    /\ BagCardinality(queue) = 2
    /\ \A m \in BagToSet(queue) : m.receiveCount = 1
    /\ \E e1, e2 \in DOMAIN outbox :
          /\ e1 # e2
          /\ RowsOf(e1) # {} /\ DedupesOf(e1) # {}
          /\ RowsOf(e2) = {} /\ DedupesOf(e2) = {}
          /\ HasProjectionRule(eventEnvelope(outbox[e2]))

\* ---------------------------------------------------------------- C37
\* C37: after any sequence of WorkOrderCreated deliveries (duplicates,
\* reordering, concurrent invocations, retries after a failure) the
\* Projection Store holds at most one row per work order id, and each row is
\* the row of a work order that was created.
C37_OneRowPerWorkOrder ==
    /\ \A r1, r2 \in WORK_ORDER_TABLE :
          r1.workOrderId = r2.workOrderId => r1 = r2
    /\ \A r \in WORK_ORDER_TABLE : \E wo \in work_orders : wo.id = r.workOrderId

\* Two invocations have written the row of the same work order, one of them
\* from a message that was delivered again after a failure, and the store
\* holds that one row.
C37_Witness ==
    /\ \E j1, j2 \in Projectors :
          /\ j1 # j2
          /\ proj[j1].pc = "dedupe" /\ proj[j2].pc = "dedupe"
          /\ Envelope(j1).id = Envelope(j2).id
          /\ proj[j1].records[proj[j1].i].receiveCount >= 2
    /\ Cardinality(WORK_ORDER_TABLE) = 1

\* ---------------------------------------------------------------- C38
\* Invocation j's processEvent makes its Projection write in this step.
PutsRow(j) == proj[j].pc = "put" /\ proj'[j].pc = "dedupe"

\* Invocation j's processEvent makes its dedupe write in this step.
PutsDedupe(j) == proj[j].pc = "dedupe" /\ proj'[j].pc # "dedupe"

\* C38: processEvent for an envelope changes at most the Projection row at
\* the envelope's own key and the DedupeRecord of the envelope's id: a row or
\* a DedupeRecord that a step adds or replaces is at the key (has the id) of
\* the envelope an invocation is applying in that step, every other row and
\* DedupeRecord is the same after the step, and each key that holds a row or
\* a DedupeRecord before a step holds one after it (nothing is deleted).
C38_ProcessEventFrame ==
    [][/\ \A x \in (WORK_ORDER_TABLE' \ WORK_ORDER_TABLE) \cup
                    (WORK_ORDER_TABLE \ WORK_ORDER_TABLE') :
             \E j \in Projectors :
                PutsRow(j) /\ KeyOf(x, ProjectionKey) = KeyFor(Envelope(j))
       /\ \A d \in (PROCESSED_EVENTS_TABLE' \ PROCESSED_EVENTS_TABLE) \cup
                    (PROCESSED_EVENTS_TABLE \ PROCESSED_EVENTS_TABLE') :
             \E j \in Projectors :
                PutsDedupe(j) /\ d.eventId = Envelope(j).id
       /\ \A r \in WORK_ORDER_TABLE : \E x \in WORK_ORDER_TABLE' :
             KeyOf(x, ProjectionKey) = KeyOf(r, ProjectionKey)
       /\ \A d \in PROCESSED_EVENTS_TABLE : \E x \in PROCESSED_EVENTS_TABLE' :
             KeyOf(x, DedupeKey) = KeyOf(d, DedupeKey)]_vars

\* Two envelopes have been applied at different times: the row and the
\* DedupeRecord of the one applied first are stored as they were written,
\* next to those of the one applied later.
C38_Witness ==
    \E e1, e2 \in DOMAIN outbox :
       /\ dbItem(EnvelopeOf(e1), 0) \in WORK_ORDER_TABLE
       /\ processedEvent(EnvelopeOf(e1), 0) \in PROCESSED_EVENTS_TABLE
       /\ dbItem(EnvelopeOf(e2), 1) \in WORK_ORDER_TABLE
       /\ processedEvent(EnvelopeOf(e2), 1) \in PROCESSED_EVENTS_TABLE
       /\ e1 # e2

\* ---------------------------------------------------------------- C39
\* The select of invocation p resolves in this step.
SelectResolves(p) ==
    pub[p].pc = "select" /\ pub'[p].pc \notin {"select", "raise"}

\* C39: when the select finds no unpublished record the invocation performs
\* no bus send and no ledger update and returns status 204: a select that
\* resolves while nothing is unpublished takes the invocation to the early
\* return, with an empty batch and the result {statusCode: 204}, and from
\* there the invocation ends; none of its steps changes the queue, the
\* record of what was sent or the outbox.
C39_EmptySelectReturns204 ==
    [][\A p \in Publishers :
          /\ (SelectResolves(p) /\ Unpublished = {}) =>
                /\ pub'[p].pc = "empty"
                /\ pub'[p].rows = <<>> /\ pub'[p].log = <<>>
                /\ Result(p)' = [statusCode |-> 204]
                /\ UNCHANGED <<outbox, queue, snsSent>>
          /\ (SelectResolves(p) /\ pub'[p].pc = "empty") => Unpublished = {}
          /\ (pub[p].pc = "empty" /\ pub'[p] # pub[p]) =>
                /\ pub'[p].pc = "idle"
                /\ UNCHANGED <<outbox, queue, snsSent>>]_vars

\* An invocation found nothing to publish although the outbox holds records:
\* all of them were published before its select.
C39_Witness ==
    \E p \in Publishers :
       /\ pub[p].pc = "empty"
       /\ Len(outbox) = 2
       /\ \A k \in DOMAIN outbox : outbox[k].published_at # NULL

\* ---------------------------------------------------------------- C40
\* Invocation p finishes in this step.
Finishes(p) == pub[p].pc # "idle" /\ pub'[p].pc = "idle"

\* C40: every publisher invocation that connected to the ledger closes its
\* connection before it finishes, on the empty-batch return, on the normal
\* return and on the fatal-error path alike: an invocation holds its
\* connection from the moment createDBClient resolved to its last step,
\* whichever that is, and no connection is open for an invocation that is
\* over (or that could not connect).
C40_ConnectionClosedOnEveryPath ==
    [][\A p \in Publishers :
          /\ Finishes(p) =>
                /\ pub[p].pc \in {"empty", "return", "raise"}
                /\ pub[p].connected <=> pub[p].log # <<"connectFailed">>
                /\ ~pub'[p].connected
          /\ pub'[p].pc \in {"select", "empty", "send", "mark", "return"} =>
                pub'[p].connected
          /\ pub'[p].pc = "idle" => ~pub'[p].connected]_vars

\* No invocation is running and no connection is open, after an invocation
\* that connected and published a record has returned.
C40_Witness ==
    /\ \A p \in Publishers : pub[p].pc = "idle" /\ ~pub[p].connected
    /\ \E k \in DOMAIN outbox : outbox[k].published_at # NULL

====
